---- MODULE Spec2Model ----
(***************************************************************************)
(* Backtest simulator (backtestStrategy) and the indicators it calls       *)
(* (calculateRSI, calculateEMA), modelled as a state machine.              *)
(*                                                                         *)
(* JavaScript numbers are modelled as exact rationals over arbitrary-size  *)
(* naturals (TLC's integers are 32 bits wide, the Wilder and EMA           *)
(* recurrences over a 51-candle window need far more). The rounding of     *)
(* doubles is modelled only where it decides a branch: the comparison of   *)
(* two EMAs that are equal in exact arithmetic (see `rounding`).           *)
(***************************************************************************)
EXTENDS Integers, Sequences, FiniteSets, TLC

(***************************************************************************)
(* Naturals of arbitrary size: little-endian digit sequences in base Base, *)
(* without leading zero digits; zero is the empty sequence.                *)
(***************************************************************************)
Base == 100 * 100

RECURSIVE BigOfNat(_)
BigOfNat(k) == IF k = 0 THEN <<>> ELSE <<k % Base>> \o BigOfNat(k \div Base)

BigDigit(a, i) == IF i <= Len(a) THEN a[i] ELSE 0

RECURSIVE BigAddFrom(_, _, _, _)
BigAddFrom(a, b, i, carry) ==
  IF i > Len(a) /\ i > Len(b)
    THEN (IF carry = 0 THEN <<>> ELSE <<carry>>)
    ELSE LET t == BigDigit(a, i) + BigDigit(b, i) + carry
         IN  <<t % Base>> \o BigAddFrom(a, b, i + 1, t \div Base)

BigAdd(a, b) ==
  IF a = <<>> THEN b ELSE IF b = <<>> THEN a ELSE BigAddFrom(a, b, 1, 0)

RECURSIVE BigTrim(_)
BigTrim(a) ==
  IF a = <<>> THEN a
  ELSE IF a[Len(a)] = 0 THEN BigTrim(SubSeq(a, 1, Len(a) - 1)) ELSE a

RECURSIVE BigSubFrom(_, _, _, _)
BigSubFrom(a, b, i, borrow) ==
  IF i > Len(a) THEN <<>>
  ELSE LET t == a[i] - BigDigit(b, i) - borrow
       IN  IF t < 0 THEN <<t + Base>> \o BigSubFrom(a, b, i + 1, 1)
                    ELSE <<t>> \o BigSubFrom(a, b, i + 1, 0)

\* a - b, for a >= b
BigSub(a, b) == IF b = <<>> THEN a ELSE BigTrim(BigSubFrom(a, b, 1, 0))

RECURSIVE BigCmpFrom(_, _, _)
BigCmpFrom(a, b, i) ==
  IF i = 0 THEN 0
  ELSE IF a[i] < b[i] THEN -1
  ELSE IF a[i] > b[i] THEN 1
  ELSE BigCmpFrom(a, b, i - 1)

\* -1, 0 or 1 as a < b, a = b or a > b
BigCmp(a, b) ==
  IF Len(a) < Len(b) THEN -1
  ELSE IF Len(a) > Len(b) THEN 1
  ELSE BigCmpFrom(a, b, Len(a))

RECURSIVE BigMulDigitFrom(_, _, _, _)
BigMulDigitFrom(a, k, i, carry) ==
  IF i > Len(a)
    THEN (IF carry = 0 THEN <<>> ELSE <<carry>>)
    ELSE LET t == a[i] * k + carry
         IN  <<t % Base>> \o BigMulDigitFrom(a, k, i + 1, t \div Base)

\* a * k for one digit 0 <= k < Base
BigMulDigit(a, k) ==
  IF k = 0 \/ a = <<>> THEN <<>>
  ELSE IF k = 1 THEN a
  ELSE BigMulDigitFrom(a, k, 1, 0)

RECURSIVE BigMulFrom(_, _, _)
BigMulFrom(a, b, j) ==
  IF j > Len(b) THEN <<>>
  ELSE BigAdd(BigMulDigit(a, b[j]), <<0>> \o BigMulFrom(a, b, j + 1))

BigMul(a, b) ==
  IF a = <<>> \/ b = <<>> THEN <<>>
  ELSE IF Len(b) = 1 THEN BigMulDigit(a, b[1])
  ELSE IF Len(a) = 1 THEN BigMulDigit(b, a[1])
  ELSE IF Len(b) <= Len(a) THEN BigTrim(BigMulFrom(a, b, 1))
  ELSE BigTrim(BigMulFrom(b, a, 1))

(***************************************************************************)
(* Numbers: exact rationals [neg, n, d] with d > 0 (value -n/d when neg).  *)
(* They are not kept in lowest terms: equality is NumEq, never =.         *)
(***************************************************************************)
Num(k) == [neg |-> k < 0, n |-> BigOfNat(IF k < 0 THEN -k ELSE k), d |-> <<1>>]

NumIsZero(x) == x.n = <<>>

NumNeg(x) == IF NumIsZero(x) THEN x ELSE [x EXCEPT !.neg = ~x.neg]

NumAbs(x) == [x EXCEPT !.neg = FALSE]

\* the numerators of x and y over the common denominator x.d * y.d
NumOver(x, y) == IF x.d = y.d THEN x.n ELSE BigMul(x.n, y.d)

NumAdd(x, y) ==
  LET a == NumOver(x, y)
      b == NumOver(y, x)
      d == IF x.d = y.d THEN x.d ELSE BigMul(x.d, y.d)
      c == BigCmp(a, b)
  IN  IF x.neg = y.neg THEN [neg |-> x.neg, n |-> BigAdd(a, b), d |-> d]
      ELSE IF c = 0 THEN [neg |-> FALSE, n |-> <<>>, d |-> d]
      ELSE IF c > 0 THEN [neg |-> x.neg, n |-> BigSub(a, b), d |-> d]
      ELSE [neg |-> y.neg, n |-> BigSub(b, a), d |-> d]

NumSub(x, y) == NumAdd(x, NumNeg(y))

NumMul(x, y) ==
  LET n == BigMul(x.n, y.n)
  IN  [neg |-> (x.neg # y.neg) /\ n # <<>>, n |-> n, d |-> BigMul(x.d, y.d)]

\* x / y for y # 0
NumDiv(x, y) ==
  LET n == BigMul(x.n, y.d)
  IN  [neg |-> (x.neg # y.neg) /\ n # <<>>, n |-> n, d |-> BigMul(x.d, y.n)]

NumLt(x, y) ==
  LET c == BigCmp(NumOver(x, y), NumOver(y, x))
  IN  IF x.neg /\ ~y.neg THEN ~(NumIsZero(x) /\ NumIsZero(y))
      ELSE IF ~x.neg /\ y.neg THEN FALSE
      ELSE IF x.neg THEN c > 0 ELSE c < 0

NumGt(x, y) == NumLt(y, x)

NumLe(x, y) == ~NumLt(y, x)

NumEq(x, y) == ~NumLt(x, y) /\ ~NumLt(y, x)

(***************************************************************************)
(* Candles carry the two fields the simulator reads: time and close.       *)
(* JavaScript arrays are 0-based, sequences 1-based: index k of the code   *)
(* is index k + 1 here.                                                    *)
(***************************************************************************)
\* JavaScript values outside the rationals: the denominator is zero (empty)
Undefined == [neg |-> TRUE, n |-> <<>>, d |-> <<>>]
NaN == [neg |-> FALSE, n |-> <<>>, d |-> <<>>]
Infinity == [neg |-> FALSE, n |-> <<1>>, d |-> <<>>]

IsFinite(x) == x.d # <<>>

Max(a, b) == IF a >= b THEN a ELSE b

Min(a, b) == IF a <= b THEN a ELSE b

Closes(cs) == [k \in 1..Len(cs) |-> cs[k].close]

RECURSIVE SumInts(_, _, _)
SumInts(s, from, to) == IF from > to THEN 0 ELSE s[from] + SumInts(s, from + 1, to)

\* gains[k] and losses[k] of calculateRSI: the change from candle k to candle k + 1
Gain(closePrices, k) ==
  LET change == closePrices[k + 1] - closePrices[k]
  IN  IF change > 0 THEN change ELSE 0

\* a variant that takes every change as a loss
LossOfAnyChange(closePrices, k) ==
  LET change == closePrices[k + 1] - closePrices[k]
  IN  IF change < 0 THEN -change ELSE change

Loss(closePrices, k) ==
  LET change == closePrices[k + 1] - closePrices[k]
  IN  IF change < 0 THEN -change ELSE 0

\* one RSI value from the two running averages
RsiValue(avgGain, avgLoss) ==
  IF NumIsZero(avgLoss) THEN Num(100)
  ELSE LET rs == NumDiv(avgGain, avgLoss)
       IN  NumSub(Num(100), NumDiv(Num(100), NumAdd(Num(1), rs)))

\* Wilder's smoothing of one running average with the next gain or loss
WilderStep(avg, value, period) ==
  NumDiv(NumAdd(NumMul(avg, Num(period - 1)), Num(value)), Num(period))

\* the loop over i = period .. gains.length - 1: avgs[j] = <<avgGain, avgLoss>>
\* is the pair that gives rsiValues[j]
RECURSIVE RsiSmooth(_, _, _)
RsiSmooth(closePrices, period, avgs) ==
  IF Len(avgs) >= Len(closePrices) - period THEN avgs
  ELSE LET i    == period + Len(avgs)
           prev == avgs[Len(avgs)]
       IN  RsiSmooth(closePrices, period,
                     Append(avgs, << WilderStep(prev[1], Gain(closePrices, i), period),
                                     WilderStep(prev[2], Loss(closePrices, i), period) >>))

\* the initial averages: the simple means of the first `period` gains and losses
RsiAverages(closePrices, period) ==
  LET g == [k \in 1..period |-> Gain(closePrices, k)]
      l == [k \in 1..period |-> Loss(closePrices, k)]
  IN  RsiSmooth(closePrices, period,
                << << NumDiv(Num(SumInts(g, 1, period)), Num(period)),
                      NumDiv(Num(SumInts(l, 1, period)), Num(period)) >> >>)

\* calculateRSI(candles, period): an array of the candles' length
calculateRSI(candles, period) ==
  LET n == Len(candles)
      closePrices == Closes(candles)
      avgs == RsiAverages(closePrices, period)
  IN  IF n < period + 1
        THEN [k \in 1..n |-> Num(50)]
        ELSE [k \in 1..n |->
                IF k <= period THEN Undefined
                ELSE RsiValue(avgs[k - period][1], avgs[k - period][2])]

\* a variant with the multiplier 2 / period
EmaStepOverPeriod(price, prev, period) ==
  NumDiv(NumAdd(Num(2 * price), NumMul(prev, Num(period - 2))), Num(period))

\* ema[i] = (prices[i] - ema[i-1]) * multiplier + ema[i-1] with multiplier =
\* 2 / (period + 1), written over one denominator:
\* (2 * prices[i] + (period - 1) * ema[i-1]) / (period + 1)
EmaStep(price, prev, period) ==
  NumDiv(NumAdd(Num(2 * price), NumMul(prev, Num(period - 1))), Num(period + 1))

\* the loop over i = period .. prices.length - 1, from ema[period - 1] on:
\* emas[j] is ema[period - 2 + j]
RECURSIVE EmaLoop(_, _, _)
EmaLoop(prices, period, emas) ==
  IF period - 1 + Len(emas) >= Len(prices) THEN emas
  ELSE EmaLoop(prices, period,
               Append(emas, EmaStep(prices[period + Len(emas)], emas[Len(emas)], period)))

\* calculateEMA(prices, period): the SMA of the first `period` prices (of all
\* of them when there are fewer) seeds ema[period - 1]; assigning it grows the
\* array when it is shorter than period
calculateEMA(prices, period) ==
  LET sma  == NumDiv(Num(SumInts(prices, 1, Min(period, Len(prices)))), Num(period))
      emas == EmaLoop(prices, period, <<sma>>)
  IN  [k \in 1..Max(Len(prices), period) |->
         IF k < period THEN Undefined ELSE emas[k - period + 1]]

\* JavaScript truthiness of a number or undefined
Truthy(x) == IsFinite(x) /\ ~NumIsZero(x)

(***************************************************************************)
(* backtestStrategy(candles, initialCapital, leverage, riskPerTrade)       *)
(***************************************************************************)
MinCandles == 50
Lookback == 50
RsiPeriod == 14
EmaFast == 8
EmaSlow == 21
Overbought == 70
Oversold == 30


VARIABLES
  candles, initialCapital, leverage, riskPerTrade,  \* the arguments
  pc,                                               \* the place in the function
  capital, highWaterMark, maxDrawdown, trades,      \* its locals
  inPosition, positionType, entryPrice, entryTime, positionSize,
  i, currentRsi, currentEma8, currentEma21, currentPrice,
  result,                                           \* the value returned
  entries,                                          \* history: positions opened so far
  rounding,                                         \* how equal EMAs compare as doubles
  call, output                                      \* a direct call of an indicator

args == <<candles, initialCapital, leverage, riskPerTrade>>
position == <<inPosition, positionType, entryPrice, entryTime, positionSize>>
account == <<capital, highWaterMark, maxDrawdown, trades>>
indicators == <<currentRsi, currentEma8, currentEma21, currentPrice>>
vars == <<args, pc, account, position, i, indicators, result, entries, rounding, call, output>>

NoResult == "none"

\* profit of closing the open position at exitPrice
Profit(type, size, entry, exitPrice, lev) ==
  IF type = "LONG"
    THEN NumMul(NumDiv(NumMul(size, Num(exitPrice - entry)), Num(entry)), Num(lev))
    ELSE NumMul(NumDiv(NumMul(size, Num(entry - exitPrice)), Num(entry)), Num(lev))

\* a variant of the trade record that stamps the exit with the time of the entry
TradeAtEntryTime(exitPrice, profit, time) ==
  [ entryPrice |-> entryPrice,
    exitPrice  |-> exitPrice,
    type       |-> positionType,
    profit     |-> profit,
    profitPercentage |->
      IF NumIsZero(positionSize) THEN NaN
      ELSE NumMul(NumDiv(profit, positionSize), Num(100)),
    timestamp  |-> entryTime,
    entryTime  |-> entryTime,
    exitTime   |-> entryTime ]

\* the trade pushed on the ledger when the open position is closed
Trade(exitPrice, profit, time) ==
  [ entryPrice |-> entryPrice,
    exitPrice  |-> exitPrice,
    type       |-> positionType,
    profit     |-> profit,
    profitPercentage |->
      IF NumIsZero(positionSize) THEN NaN
      ELSE NumMul(NumDiv(profit, positionSize), Num(100)),
    timestamp  |-> time,
    entryTime  |-> entryTime,
    exitTime   |-> time ]

\* a variant of the early return that reports an empty account
EmptyResultNoCapital ==
  [ totalTrades |-> 0, winningTrades |-> 0, losingTrades |-> 0,
    winRate |-> Num(0), finalCapital |-> Num(0),
    totalReturn |-> Num(0), maxDrawdown |-> Num(0), netProfit |-> Num(0),
    netProfitPercent |-> Num(0), profitFactor |-> Num(0),
    maxDrawdownPercent |-> Num(0), finalBalance |-> Num(0),
    trades |-> <<>> ]

\* the early return for fewer than 50 candles
EmptyResult ==
  [ totalTrades |-> 0, winningTrades |-> 0, losingTrades |-> 0,
    winRate |-> Num(0), finalCapital |-> Num(initialCapital),
    totalReturn |-> Num(0), maxDrawdown |-> Num(0), netProfit |-> Num(0),
    netProfitPercent |-> Num(0), profitFactor |-> Num(0),
    maxDrawdownPercent |-> Num(0), finalBalance |-> Num(initialCapital),
    trades |-> <<>> ]

TooFewCandles ==
  /\ pc = "start"
  /\ Len(candles) < MinCandles
  /\ result' = EmptyResult
  /\ pc' = "done"
  /\ UNCHANGED <<args, account, position, i, indicators, entries, rounding, call, output>>

\* enough candles: the locals are initialised and the loop starts at i = 50
StartLoop ==
  /\ pc = "start"
  /\ ~(Len(candles) < MinCandles)
  /\ capital' = Num(initialCapital)
  /\ highWaterMark' = Num(initialCapital)
  /\ maxDrawdown' = Num(0)
  /\ trades' = <<>>
  /\ inPosition' = FALSE
  /\ positionType' = "LONG"
  /\ entryPrice' = 0
  /\ entryTime' = 0
  /\ positionSize' = Num(0)
  /\ i' = Lookback
  /\ pc' = "loop"
  /\ UNCHANGED <<args, indicators, result, entries, rounding, call, output>>

(***************************************************************************)
(* currentEma8 < currentEma21 and currentEma8 > currentEma21 compare two   *)
(* IEEE-754 doubles computed along different paths. Where the two agree in *)
(* exact arithmetic (a window of identical closes) the rounding of the     *)
(* two computations decides: 51 closes of 0.1 give ema8 =                  *)
(* 0.09999999999999999 < ema21 = 0.10000000000000002, closes of 0.3 give   *)
(* ema8 > ema21, closes of 100 give ema8 = ema21. `rounding` is the sign   *)
(* of ema8 - ema21 as doubles in that case; it is fixed by the close       *)
(* value, so it is an input of the run.                                    *)
(***************************************************************************)
EmaLt(ema8, ema21) == NumLt(ema8, ema21) \/ (NumEq(ema8, ema21) /\ rounding < 0)

EmaGt(ema8, ema21) == NumGt(ema8, ema21) \/ (NumEq(ema8, ema21) /\ rounding > 0)

\* a variant of the exit signal with the tests of the two sides exchanged
ExitSignalExchanged(type, rsi, ema8, ema21) ==
  IF type = "SHORT"
    THEN NumGt(rsi, Num(Overbought))
         \/ (Truthy(ema8) /\ Truthy(ema21) /\ EmaLt(ema8, ema21))
    ELSE NumLt(rsi, Num(Oversold))
         \/ (Truthy(ema8) /\ Truthy(ema21) /\ EmaGt(ema8, ema21))

\* LONG: RSI overbought or EMAs crossed down; SHORT: oversold or crossed up
ExitSignal(type, rsi, ema8, ema21) ==
  IF type = "LONG"
    THEN NumGt(rsi, Num(Overbought))
         \/ (Truthy(ema8) /\ Truthy(ema21) /\ EmaLt(ema8, ema21))
    ELSE NumLt(rsi, Num(Oversold))
         \/ (Truthy(ema8) /\ Truthy(ema21) /\ EmaGt(ema8, ema21))

\* an entry signal that looks at the RSI only
EntrySignalOnRsi(rsi, ema8, ema21) ==
  IF NumLt(rsi, Num(Oversold)) THEN "LONG"
  ELSE IF NumGt(rsi, Num(Overbought)) THEN "SHORT"
  ELSE "null"

\* "LONG", "SHORT" or "null"
EntrySignal(rsi, ema8, ema21) ==
  IF NumLt(rsi, Num(Oversold)) /\ Truthy(ema8) /\ Truthy(ema21) /\ EmaGt(ema8, ema21)
    THEN "LONG"
  ELSE IF NumGt(rsi, Num(Overbought)) /\ Truthy(ema8) /\ Truthy(ema21) /\ EmaLt(ema8, ema21)
    THEN "SHORT"
  ELSE "null"

\* an exit inside the loop also tracks the high-water mark and the drawdown
TrackedDrawdown(cap) ==
  IF NumGt(cap, highWaterMark) THEN maxDrawdown
  ELSE LET drawdown == NumDiv(NumSub(highWaterMark, cap), highWaterMark)
       IN  IF NumGt(drawdown, maxDrawdown) THEN drawdown ELSE maxDrawdown

\* one pass of the loop, first half: the indicators over the window
\* candles[i-50 .. i], then the exit of an open position
ExitCheck ==
  /\ pc = "loop"
  /\ i < Len(candles) - 1
  /\ LET windowCandles == SubSeq(candles, i - Lookback + 1, i + 1)
         n           == Len(windowCandles)
         last        == calculateRSI(windowCandles, RsiPeriod)[n]
         rsi         == IF Truthy(last) THEN last ELSE Num(50)
         closePrices == Closes(windowCandles)
         ema8        == calculateEMA(closePrices, EmaFast)[n]
         ema21       == calculateEMA(closePrices, EmaSlow)[n]
         price       == windowCandles[n].close
         profit      == Profit(positionType, positionSize, entryPrice, price, leverage)
         cap         == NumAdd(capital, profit)
     IN  /\ currentRsi' = rsi
         /\ currentEma8' = ema8
         /\ currentEma21' = ema21
         /\ currentPrice' = price
         /\ IF inPosition /\ ExitSignal(positionType, rsi, ema8, ema21)
              THEN /\ capital' = cap
                   /\ highWaterMark' = IF NumGt(cap, highWaterMark) THEN cap ELSE highWaterMark
                   /\ maxDrawdown' = TrackedDrawdown(cap)
                   /\ trades' = Append(trades, Trade(price, profit, candles[i + 1].time))
                   /\ inPosition' = FALSE
              ELSE UNCHANGED <<account, inPosition>>
  /\ pc' = "entry"
  /\ UNCHANGED <<args, positionType, entryPrice, entryTime, positionSize, i, result, entries, rounding, call, output>>

\* a variant of the entry that does not look at inPosition
EntryCheckWhileOpen ==
  /\ pc = "entry"
  /\ LET entrySignal == EntrySignal(currentRsi, currentEma8, currentEma21)
     IN  IF entrySignal # "null"
           THEN /\ entryPrice' = currentPrice
                /\ entryTime' = candles[i + 1].time
                /\ positionType' = entrySignal
                /\ positionSize' = NumMul(capital, NumDiv(Num(riskPerTrade), Num(100)))
                /\ inPosition' = TRUE
                /\ entries' = entries + 1
           ELSE UNCHANGED <<position, entries>>
  /\ i' = i + 1
  /\ pc' = "loop"
  /\ UNCHANGED <<args, account, indicators, result, rounding, call, output>>

\* second half: the entry of a new position when none is open, then i++
\* (the ATR computed on entry is not used: it changes nothing)
EntryCheck ==
  /\ pc = "entry"
  /\ LET entrySignal == EntrySignal(currentRsi, currentEma8, currentEma21)
     IN  IF ~inPosition /\ entrySignal # "null"
           THEN /\ entryPrice' = currentPrice
                /\ entryTime' = candles[i + 1].time
                /\ positionType' = entrySignal
                /\ positionSize' = NumMul(capital, NumDiv(Num(riskPerTrade), Num(100)))
                /\ inPosition' = TRUE
                /\ entries' = entries + 1
           ELSE UNCHANGED <<position, entries>>
  /\ i' = i + 1
  /\ pc' = "loop"
  /\ UNCHANGED <<args, account, indicators, result, rounding, call, output>>

LoopEnd ==
  /\ pc = "loop"
  /\ ~(i < Len(candles) - 1)
  /\ pc' = "close"
  /\ UNCHANGED <<args, account, position, i, indicators, result, entries, rounding, call, output>>

\* a variant of the final close at the last candle the loop looked at
ForceCloseAtLoopCandle ==
  /\ pc = "close"
  /\ inPosition
  /\ LET exitPrice == candles[Len(candles) - 1].close
         profit    == Profit(positionType, positionSize, entryPrice, exitPrice, leverage)
     IN  /\ capital' = NumAdd(capital, profit)
         /\ trades' = Append(trades, Trade(exitPrice, profit, candles[Len(candles) - 1].time))
  /\ pc' = "stats"
  /\ UNCHANGED <<args, highWaterMark, maxDrawdown, position, i, indicators, result, entries, rounding, call, output>>

\* a variant of the final close that records the trade and keeps the capital
ForceCloseKeepingCapital ==
  /\ pc = "close"
  /\ inPosition
  /\ LET exitPrice == candles[Len(candles)].close
         profit    == Profit(positionType, positionSize, entryPrice, exitPrice, leverage)
     IN  /\ capital' = capital
         /\ trades' = Append(trades, Trade(exitPrice, profit, candles[Len(candles)].time))
  /\ pc' = "stats"
  /\ UNCHANGED <<args, highWaterMark, maxDrawdown, position, i, indicators, result, entries, rounding, call, output>>

\* close any open position at the end of the test, at the last candle's close
ForceClose ==
  /\ pc = "close"
  /\ inPosition
  /\ LET exitPrice == candles[Len(candles)].close
         profit    == Profit(positionType, positionSize, entryPrice, exitPrice, leverage)
     IN  /\ capital' = NumAdd(capital, profit)
         /\ trades' = Append(trades, Trade(exitPrice, profit, candles[Len(candles)].time))
  /\ pc' = "stats"
  /\ UNCHANGED <<args, highWaterMark, maxDrawdown, position, i, indicators, result, entries, rounding, call, output>>

NothingToClose ==
  /\ pc = "close"
  /\ ~inPosition
  /\ pc' = "stats"
  /\ UNCHANGED <<args, account, position, i, indicators, result, entries, rounding, call, output>>

\* trades.filter(keep).reduce((sum, t) => sum + t.profit, 0)
RECURSIVE SumProfit(_, _, _)
SumProfit(ts, k, winning) ==
  IF k > Len(ts) THEN Num(0)
  ELSE IF NumGt(ts[k].profit, Num(0)) = winning
    THEN NumAdd(ts[k].profit, SumProfit(ts, k + 1, winning))
    ELSE SumProfit(ts, k + 1, winning)

\* a variant that counts a trade of profit 0 as won
WinningTradesWithZero(ts) == Cardinality({k \in 1..Len(ts) : ~NumLt(ts[k].profit, Num(0))})

\* trades.filter(t => t.profit > 0).length
WinningTrades(ts) == Cardinality({k \in 1..Len(ts) : NumGt(ts[k].profit, Num(0))})

\* a variant that counts only the trades of profit < 0
LosingTradesStrict(ts) == Cardinality({k \in 1..Len(ts) : NumLt(ts[k].profit, Num(0))})

\* trades.filter(t => t.profit <= 0).length
LosingTrades(ts) == Cardinality({k \in 1..Len(ts) : NumLe(ts[k].profit, Num(0))})

\* a variant that divides whatever the loss is: 0 / 0 is NaN
ProfitFactorUnguarded(totalProfit, totalLoss) ==
  IF NumGt(totalLoss, Num(0)) THEN NumDiv(totalProfit, totalLoss)
  ELSE IF NumGt(totalProfit, Num(0)) THEN Infinity
  ELSE NaN

ProfitFactor(totalProfit, totalLoss) ==
  IF NumGt(totalLoss, Num(0)) THEN NumDiv(totalProfit, totalLoss)
  ELSE IF NumGt(totalProfit, Num(0)) THEN Infinity
  ELSE Num(0)

\* the statistics and the value returned
Statistics ==
  /\ pc = "stats"
  /\ LET totalTrades   == Len(trades)
         winningTrades == WinningTrades(trades)
         losingTrades  == LosingTrades(trades)
         totalProfit   == SumProfit(trades, 1, TRUE)
         totalLoss     == NumAbs(SumProfit(trades, 1, FALSE))
         netProfit     == NumSub(capital, Num(initialCapital))
     IN  result' =
           [ totalTrades   |-> totalTrades,
             winningTrades |-> winningTrades,
             losingTrades  |-> losingTrades,
             winRate       |-> IF totalTrades > 0
                                 THEN NumMul(NumDiv(Num(winningTrades), Num(totalTrades)), Num(100))
                                 ELSE Num(0),
             finalCapital  |-> capital,
             totalReturn   |-> NumMul(NumDiv(NumSub(capital, Num(initialCapital)),
                                             Num(initialCapital)), Num(100)),
             maxDrawdown   |-> maxDrawdown,
             netProfit     |-> netProfit,
             netProfitPercent |-> NumMul(NumDiv(netProfit, Num(initialCapital)), Num(100)),
             profitFactor  |-> ProfitFactor(totalProfit, totalLoss),
             maxDrawdownPercent |-> NumMul(maxDrawdown, Num(100)),
             finalBalance  |-> capital,
             trades        |-> trades ]
  /\ pc' = "done"
  /\ UNCHANGED <<args, account, position, i, indicators, entries, rounding, call, output>>

(***************************************************************************)
(* The candle series of the runs. Closes are whole numbers of price ticks; *)
(* time is the candle's index.                                             *)
(***************************************************************************)
StartPrice == 200
MaxExtra == 10
GapLen == 4
MaxRest == 1

ShockMove == 40
ReboundMove == 60
JumpMove == 1000
ReversalLeap == 12200
ReversalStep == 5000
ReversalMove == 153
ReversalTop == 20000
FollowMoves == {-3, 0, 3, 25}
LastMoves == {-3, 0, 3}

SeriesOf(closes) == [k \in 1..Len(closes) |-> [time |-> k, close |-> closes[k]]]

Ramp(slope, n) == [k \in 1..n |-> StartPrice + slope * (k - 1)]

Flat(n) == [k \in 1..n |-> 0]

RECURSIVE Walk(_, _)
Walk(closes, moves) ==
  IF moves = <<>> THEN closes
  ELSE Walk(Append(closes, closes[Len(closes)] + Head(moves)), Tail(moves))

\* fewer than 50 candles
ShortSeries == { SeriesOf(Ramp(0, n)) : n \in {0, 1, MinCandles - 1} }

\* constant, strictly increasing and strictly decreasing closes
TrendSeries ==
  { SeriesOf(Ramp(s, MinCandles + x)) : s \in {-1, 0, 1}, x \in {0, 1, 2, MaxExtra} }

\* a trend of 50 candles, a shock against it, one more move, and a rest
OneShockSeries ==
  { SeriesOf(Walk(Ramp(s, Lookback), <<-s * ShockMove, s * e>> \o Flat(r))) :
      s \in {-1, 1}, e \in FollowMoves, r \in 0..MaxRest }

\* the same, then a pause, a rebound beyond the trend, one more move, and a rest
TwoShockSeries ==
  { SeriesOf(Walk(Ramp(s, Lookback),
                  <<-s * ShockMove, s * e1>> \o Flat(GapLen)
                    \o <<s * ReboundMove, s * e2>> \o Flat(r))) :
      s \in {-1, 1}, e1 \in FollowMoves, e2 \in LastMoves, r \in 0..MaxRest }

\* one low close, a jump, then closes that fall by one tick each
JumpSeries ==
  { SeriesOf(<<StartPrice>>
             \o [k \in 1..(Lookback + 2 + x) |-> StartPrice + JumpMove - (k - 1)]) :
      x \in {0, 1} }

\* a leap away from the first close, a large step back, closes that creep on
\* by one tick each, one counter-move, and one last tick
ReversalCloses(start, sign) ==
  LET second == start + sign * ReversalLeap
      third  == second - sign * ReversalStep
      last   == third - sign * (Lookback - 2)
  IN  <<start, second, third>>
      \o [k \in 1..(Lookback - 2) |-> third - sign * k]
      \o <<last + sign * ReversalMove, last + sign * ReversalMove - sign>>

ReversalSeries ==
  {SeriesOf(ReversalCloses(StartPrice, 1)), SeriesOf(ReversalCloses(ReversalTop, -1))}

CandleSeries ==
  ShortSeries \cup TrendSeries \cup OneShockSeries \cup TwoShockSeries \cup JumpSeries
    \cup ReversalSeries

NoCall == [fn |-> "none", closes |-> <<>>, period |-> 0, returned |-> FALSE]

\* initialCapital, leverage, riskPerTrade
Accounts == {<<1000, 2, 50>>, <<500, 3, 100>>}

IsConstant(cs) == \A k \in 1..Len(cs) : cs[k].close = cs[1].close

Init ==
  /\ candles \in CandleSeries
  /\ \E account0 \in (IF Len(candles) <= Lookback + 3 THEN Accounts ELSE {<<1000, 2, 50>>}) :
       /\ initialCapital = account0[1]
       /\ leverage = account0[2]
       /\ riskPerTrade = account0[3]
  /\ rounding \in (IF IsConstant(candles) THEN {-1, 0, 1} ELSE {0})
  /\ pc = "start"
  /\ capital = Num(initialCapital)
  /\ highWaterMark = Num(initialCapital)
  /\ maxDrawdown = Num(0)
  /\ trades = <<>>
  /\ inPosition = FALSE
  /\ positionType = "LONG"
  /\ entryPrice = 0
  /\ entryTime = 0
  /\ positionSize = Num(0)
  /\ i = Lookback
  /\ currentRsi = Num(50)
  /\ currentEma8 = Undefined
  /\ currentEma21 = Undefined
  /\ currentPrice = 0
  /\ result = NoResult
  /\ entries = 0
  /\ call = NoCall
  /\ output = NoResult

Next ==
  \/ TooFewCandles
  \/ StartLoop
  \/ ExitCheck
  \/ EntryCheck
  \/ LoopEnd
  \/ ForceClose
  \/ NothingToClose
  \/ Statistics

Spec == Init /\ [][Next]_vars

(***************************************************************************)
(* The indicators called on their own: calculateRSI(candles, period) over  *)
(* every short walk of closes and over longer trends with the period the   *)
(* simulator uses.                                                         *)
(***************************************************************************)
MaxMoves == 4
MaxPeriod == 3
LongLen == 17

Moves == {-1, 0, 1, 2}

RECURSIVE Walks(_)
Walks(n) ==
  IF n = 0 THEN {<<StartPrice>>}
  ELSE LET shorter == Walks(n - 1)
       IN  shorter \cup { Append(w, w[Len(w)] + m) :
                            w \in {v \in shorter : Len(v) = n}, m \in Moves }

LongWalks ==
  { [k \in 1..n |-> StartPrice + s * (((k - 1) * k) \div 2)] : s \in {-1, 0, 1}, n \in (RsiPeriod - 1)..LongLen }

IndicatorInit ==
  /\ \E fn \in {"calculateRSI", "calculateEMA"},
        closes \in {<<>>} \cup Walks(MaxMoves) \cup LongWalks,
        period \in (1..MaxPeriod) \cup {EmaFast, RsiPeriod} :
       call = [fn |-> fn, closes |-> closes, period |-> period, returned |-> FALSE]
  /\ output = NoResult
  /\ candles = <<>>
  /\ initialCapital = 1000
  /\ leverage = 2
  /\ riskPerTrade = 50
  /\ rounding = 0
  /\ pc = "idle"
  /\ capital = Num(initialCapital)
  /\ highWaterMark = Num(initialCapital)
  /\ maxDrawdown = Num(0)
  /\ trades = <<>>
  /\ inPosition = FALSE
  /\ positionType = "LONG"
  /\ entryPrice = 0
  /\ entryTime = 0
  /\ positionSize = Num(0)
  /\ i = Lookback
  /\ currentRsi = Num(50)
  /\ currentEma8 = Undefined
  /\ currentEma21 = Undefined
  /\ currentPrice = 0
  /\ result = NoResult
  /\ entries = 0

CallRSI ==
  /\ call.fn = "calculateRSI"
  /\ ~call.returned
  /\ output' = calculateRSI(SeriesOf(call.closes), call.period)
  /\ call' = [call EXCEPT !.returned = TRUE]
  /\ UNCHANGED <<args, pc, account, position, i, indicators, result, entries, rounding>>

CallEMA ==
  /\ call.fn = "calculateEMA"
  /\ ~call.returned
  /\ output' = calculateEMA(call.closes, call.period)
  /\ call' = [call EXCEPT !.returned = TRUE]
  /\ UNCHANGED <<args, pc, account, position, i, indicators, result, entries, rounding>>

IndicatorNext == CallRSI \/ CallEMA

IndicatorSpec == IndicatorInit /\ [][IndicatorNext]_vars

(***************************************************************************)
(* Candlestick patterns (candlestickAnalysis.ts). A candle is a record     *)
(* [open, high, low, close, volume] of whole numbers, with close > 0. The  *)
(* factors 0.05, 0.1, 0.2, 0.3, 1.5 of the code are multiplied out.        *)
(***************************************************************************)
Abs(x) == IF x < 0 THEN -x ELSE x

BodySize(c) == Abs(c.open - c.close)

isDoji(c) == (c.high - c.low) > 0 /\ 20 * BodySize(c) < (c.high - c.low)

isBullishEngulfing(current, previous) ==
  /\ previous.close < previous.open
  /\ current.close > current.open
  /\ current.open < previous.close /\ current.close > previous.open

isBearishEngulfing(current, previous) ==
  /\ previous.close > previous.open
  /\ current.close < current.open
  /\ current.open > previous.close /\ current.close < previous.open

isHammer(c) ==
  /\ Min(c.open, c.close) - c.low >= 2 * BodySize(c)
  /\ 10 * (c.high - Max(c.open, c.close)) <= BodySize(c)

isInvertedHammer(c) ==
  /\ c.high - Max(c.open, c.close) >= 2 * BodySize(c)
  /\ 10 * (Min(c.open, c.close) - c.low) <= BodySize(c)

\* index is the position of the last candle of the pattern, counted from 1
isMorningStar(cs, index) ==
  /\ ~(index < 3)
  /\ LET first == cs[index - 2]  middle == cs[index - 1]  last == cs[index]
     IN  /\ first.close < first.open
         /\ 10 * BodySize(middle) < 3 * BodySize(first)
         /\ last.close > last.open
         /\ 2 * last.close > first.open + first.close

isEveningStar(cs, index) ==
  /\ ~(index < 3)
  /\ LET first == cs[index - 2]  middle == cs[index - 1]  last == cs[index]
     IN  /\ first.close > first.open
         /\ 10 * BodySize(middle) < 3 * BodySize(first)
         /\ last.close < last.open
         /\ 2 * last.close < first.open + first.close

isThreeWhiteSoldiers(cs, index) ==
  /\ ~(index < 3)
  /\ LET first == cs[index - 2]  second == cs[index - 1]  third == cs[index]
     IN  /\ first.close > first.open /\ second.close > second.open /\ third.close > third.open
         /\ second.open > first.open /\ second.open < first.close
         /\ third.open > second.open /\ third.open < second.close
         /\ second.close > first.close /\ third.close > second.close
         /\ 5 * (first.high - first.close) < first.close - first.open
         /\ 5 * (second.high - second.close) < second.close - second.open
         /\ 5 * (third.high - third.close) < third.close - third.open

isThreeBlackCrows(cs, index) ==
  /\ ~(index < 3)
  /\ LET first == cs[index - 2]  second == cs[index - 1]  third == cs[index]
     IN  /\ first.close < first.open /\ second.close < second.open /\ third.close < third.open
         /\ second.open < first.open /\ second.open > first.close
         /\ third.open < second.open /\ third.open > second.close
         /\ second.close < first.close /\ third.close < second.close
         /\ 5 * (first.close - first.low) < first.open - first.close
         /\ 5 * (second.close - second.low) < second.open - second.close
         /\ 5 * (third.close - third.low) < third.open - third.close

\* the base significance of the patterns analyzeCandlestickPatterns reports
baseSignificance(pattern) ==
  CASE pattern = "BULLISH_ENGULFING" -> 75
    [] pattern = "BEARISH_ENGULFING" -> 75
    [] pattern = "HAMMER" -> 65
    [] pattern = "INVERTED_HAMMER" -> 60
    [] pattern = "MORNING_STAR" -> 85
    [] pattern = "EVENING_STAR" -> 85
    [] pattern = "DOJI" -> 40
    [] pattern = "THREE_WHITE_SOLDIERS" -> 90
    [] pattern = "THREE_BLACK_CROWS" -> 90
    [] OTHER -> 50

getPatternTrend(pattern) ==
  IF pattern \in {"BULLISH_ENGULFING", "HAMMER", "MORNING_STAR", "THREE_WHITE_SOLDIERS"}
    THEN "BULLISH"
  ELSE IF pattern \in {"BEARISH_ENGULFING", "EVENING_STAR", "THREE_BLACK_CROWS"}
    THEN "BEARISH"
  ELSE "NEUTRAL"

\* the move of the close over the last 10 candles, in percent, against 3
determineCurrentTrend(cs) ==
  IF Len(cs) < 10 THEN "NEUTRAL"
  ELSE LET startPrice == cs[Len(cs) - 10 + 1].close
           endPrice   == cs[Len(cs)].close
       IN  IF 100 * (endPrice - startPrice) > 3 * startPrice THEN "BULLISH"
           ELSE IF 100 * (endPrice - startPrice) < -3 * startPrice THEN "BEARISH"
           ELSE "NEUTRAL"

calculateSignificance(pattern, cs, index, prevTrend) ==
  LET base     == baseSignificance(pattern)
      reversal == IF getPatternTrend(pattern) # "NEUTRAL" /\ getPatternTrend(pattern) # prevTrend
                    THEN 10 ELSE 0
      volume   == IF index > 1 /\ 2 * cs[index].volume > 3 * cs[index - 1].volume
                    THEN 10 ELSE 0
  IN  Min(100, Max(0, base + reversal + volume))

PatternResult(pattern, cs, index, prevTrend, trend) ==
  [ pattern |-> pattern,
    significance |-> calculateSignificance(pattern, cs, index, prevTrend),
    trend |-> trend,
    index |-> index ]

\* the results pushed for the candle at index, in the order of the code
PatternsAt(cs, index, prevTrend) ==
  LET current == cs[index]  previous == cs[index - 1]
      found(cond, pattern, trend) ==
        IF cond THEN <<PatternResult(pattern, cs, index, prevTrend, trend)>> ELSE <<>>
  IN  found(isDoji(current), "DOJI", "NEUTRAL")
      \o found(isBullishEngulfing(current, previous), "BULLISH_ENGULFING", "BULLISH")
      \o found(isBearishEngulfing(current, previous), "BEARISH_ENGULFING", "BEARISH")
      \o found(isHammer(current), "HAMMER", "BULLISH")
      \o found(isInvertedHammer(current), "INVERTED_HAMMER", "NEUTRAL")
      \o found(isMorningStar(cs, index), "MORNING_STAR", "BULLISH")
      \o found(isEveningStar(cs, index), "EVENING_STAR", "BEARISH")
      \o found(isThreeWhiteSoldiers(cs, index), "THREE_WHITE_SOLDIERS", "BULLISH")
      \o found(isThreeBlackCrows(cs, index), "THREE_BLACK_CROWS", "BEARISH")

RECURSIVE PatternsFrom(_, _, _)
PatternsFrom(cs, index, prevTrend) ==
  IF index > Len(cs) THEN <<>>
  ELSE PatternsAt(cs, index, prevTrend) \o PatternsFrom(cs, index + 1, prevTrend)

\* results.sort((a, b) => b.significance - a.significance): stable, descending
RECURSIVE InsertBySignificance(_, _)
InsertBySignificance(sorted, p) ==
  IF sorted = <<>> THEN <<p>>
  ELSE IF Head(sorted).significance >= p.significance
    THEN <<Head(sorted)>> \o InsertBySignificance(Tail(sorted), p)
  ELSE <<p>> \o sorted

RECURSIVE SortBySignificance(_)
SortBySignificance(ps) ==
  IF ps = <<>> THEN <<>>
  ELSE InsertBySignificance(SortBySignificance(SubSeq(ps, 1, Len(ps) - 1)), ps[Len(ps)])

analyzeCandlestickPatterns(cs) ==
  IF Len(cs) < 3 THEN <<>>
  ELSE SortBySignificance(PatternsFrom(cs, 3, determineCurrentTrend(cs)))

\* the number a / b
Ratio(a, b) == NumDiv(Num(a), Num(b))

\* Math.max(lo, Math.min(hi, x))
Clamp(lo, hi, x) == IF NumLt(x, lo) THEN lo ELSE IF NumGt(x, hi) THEN hi ELSE x

\* the timeframe weights of the pattern adjustment, in hundredths
PatternWeight(timeframe) ==
  CASE timeframe = "1h" -> 60
    [] timeframe = "4h" -> 85
    [] timeframe = "1d" -> 100
    [] timeframe = "1w" -> 120
    [] OTHER -> 50

\* patterns.filter(p => p.significance > 60).slice(0, 3)
SignificantPatterns(patterns) ==
  LET kept == SelectSeq(patterns, LAMBDA p : p.significance > 60)
  IN  SubSeq(kept, 1, Min(3, Len(kept)))

\* what one significant pattern adds to confidenceAdjustment
PatternAdjustment(pattern, weight, currentConfidence) ==
  LET adjustmentBase == Ratio(pattern.significance - 60, 100)
      step == NumMul(adjustmentBase, Ratio(weight, 100))
  IN  IF pattern.trend = "BULLISH" /\ NumGt(currentConfidence, Num(0)) THEN step
      ELSE IF pattern.trend = "BEARISH" /\ NumLt(currentConfidence, Num(0)) THEN NumNeg(step)
      ELSE IF \/ (pattern.trend = "BULLISH" /\ NumLt(currentConfidence, Num(0)))
              \/ (pattern.trend = "BEARISH" /\ NumGt(currentConfidence, Num(0)))
        THEN NumNeg(NumMul(step, Ratio(1, 2)))
      ELSE Num(0)

RECURSIVE SumAdjustments(_, _, _)
SumAdjustments(patterns, weight, currentConfidence) ==
  IF patterns = <<>> THEN Num(0)
  ELSE NumAdd(SumAdjustments(SubSeq(patterns, 1, Len(patterns) - 1), weight, currentConfidence),
              PatternAdjustment(patterns[Len(patterns)], weight, currentConfidence))

incorporateCandlestickAnalysis(patterns, timeframe, currentConfidence) ==
  IF patterns = <<>>
    THEN [adjustedConfidence |-> currentConfidence, supportingPatterns |-> <<>>]
  ELSE LET significantPatterns == SignificantPatterns(patterns)
           confidenceAdjustment ==
             Clamp(Ratio(-25, 100), Ratio(25, 100),
                   SumAdjustments(significantPatterns, PatternWeight(timeframe), currentConfidence))
       IN  [ adjustedConfidence |->
               Clamp(Num(-1), Num(1), NumAdd(currentConfidence, confidenceAdjustment)),
             supportingPatterns |-> significantPatterns ]

(***************************************************************************)
(* generateTradingDecision(analyses, currentPrice, minLeverage,            *)
(* maxLeverage). analyses is the sequence of the entries of the mapping,   *)
(* in insertion order, with distinct timeframe labels; confidences are     *)
(* numbers. Of the decision returned the signal, the confidence, the       *)
(* dominant timeframe, the price, the elevation note of the reasoning, the *)
(* leverage, the stop-loss and the take-profit are modelled, with the      *)
(* fused confidence the rest is derived from.                              *)
(***************************************************************************)
\* timeframeWeights[timeframe] || 0.1, in hundredths
TimeframeWeight(timeframe) ==
  CASE timeframe = "1m" -> 5
    [] timeframe = "5m" -> 10
    [] timeframe = "15m" -> 50
    [] timeframe = "30m" -> 20
    [] timeframe = "1h" -> 50
    [] timeframe = "4h" -> 60
    [] timeframe = "1d" -> 80
    [] timeframe = "1w" -> 100
    [] OTHER -> 10

\* the patterns of the candle data a timeframe carries
PatternsOf(analysis) ==
  IF analysis.hasCandleData THEN analyzeCandlestickPatterns(analysis.candleData) ELSE <<>>

\* the difference without its weight
Unweighted(x, from, weight) == NumSub(x, from)

\* (x - from) * weight, weight in hundredths
Weighted(x, from, weight) == NumMul(NumSub(x, from), Ratio(weight, 100))

\* what one timeframe adds to weightedConfidence: its centred confidence and,
\* with candle data that shows patterns, the pattern adjustment
ContributionWith(analysis, patterns) ==
  IF Len(patterns) > 0
    THEN NumAdd(Weighted(analysis.confidence, Ratio(1, 2), TimeframeWeight(analysis.timeframe)),
                Weighted(incorporateCandlestickAnalysis(patterns, analysis.timeframe,
                                                        analysis.confidence).adjustedConfidence,
                         analysis.confidence, TimeframeWeight(analysis.timeframe)))
    ELSE Weighted(analysis.confidence, Ratio(1, 2), TimeframeWeight(analysis.timeframe))

WeightedContribution(analysis) == ContributionWith(analysis, PatternsOf(analysis))

\* one pass of the loop over the timeframes; distance is |confidence - 0.5|
FuseStep(acc, analysis, distance, contribution) ==
  [ weightedConfidence |-> NumAdd(acc.weightedConfidence, contribution),
    totalWeight |-> NumAdd(acc.totalWeight, Ratio(TimeframeWeight(analysis.timeframe), 100)),
    dominantTimeframe |->
      IF NumGt(distance, acc.highestConfidenceValue)
        THEN analysis.timeframe ELSE acc.dominantTimeframe,
    highestConfidenceValue |->
      IF NumGt(distance, acc.highestConfidenceValue)
        THEN distance ELSE acc.highestConfidenceValue ]

\* the loop over the timeframes: the locals after the entries from k on
RECURSIVE FuseFrom(_, _, _)
FuseFrom(analyses, k, acc) ==
  IF k > Len(analyses) THEN acc
  ELSE FuseFrom(analyses, k + 1,
                FuseStep(acc, analyses[k],
                         NumAbs(NumSub(analyses[k].confidence, Ratio(1, 2))),
                         WeightedContribution(analyses[k])))

Fuse(analyses) ==
  FuseFrom(analyses, 1,
           [ weightedConfidence |-> Num(0), totalWeight |-> Num(0),
             dominantTimeframe |-> "", highestConfidenceValue |-> Num(0) ])

\* analyses[timeframe]?.trend === value, analyses[timeframe]?.emaStatus === value
HasTrend(analyses, timeframe, value) ==
  \E k \in 1..Len(analyses) : analyses[k].timeframe = timeframe /\ analyses[k].trend = value

HasEmaStatus(analyses, timeframe, value) ==
  \E k \in 1..Len(analyses) : analyses[k].timeframe = timeframe /\ analyses[k].emaStatus = value

\* an alignment that asks for one of the two readings of a pair only
AlignedOnEither(analyses, value) ==
  \/ (HasTrend(analyses, "15m", value) \/ HasEmaStatus(analyses, "1h", value))
  \/ (HasTrend(analyses, "1h", value) \/ HasEmaStatus(analyses, "4h", value))

\* the alignment that lifts a borderline confidence to a signal
Aligned(analyses, value) ==
  \/ (HasTrend(analyses, "15m", value) /\ HasEmaStatus(analyses, "1h", value))
  \/ (HasTrend(analyses, "1h", value) /\ HasEmaStatus(analyses, "4h", value))

\* <<signal, whether the elevation note was pushed on the reasoning>>
SignalOf(analyses, finalConfidence) ==
  IF NumGt(finalConfidence, Ratio(75, 100)) THEN <<"BUY", FALSE>>
  ELSE IF NumLt(finalConfidence, Ratio(25, 100)) THEN <<"SELL", FALSE>>
  ELSE IF NumGt(finalConfidence, Ratio(7, 10))
    THEN (IF Aligned(analyses, "bullish") THEN <<"BUY", TRUE>> ELSE <<"NEUTRAL", FALSE>>)
  ELSE IF NumLt(finalConfidence, Ratio(3, 10))
    THEN (IF Aligned(analyses, "bearish") THEN <<"SELL", TRUE>> ELSE <<"NEUTRAL", FALSE>>)
  ELSE <<"NEUTRAL", FALSE>>

\* Math.round(x): the whole number r with r <= x + 0.5 < r + 1, sought in lo..hi
Round(x, lo, hi) ==
  CHOOSE r \in lo..hi :
    /\ NumLe(Num(r), NumAdd(x, Ratio(1, 2)))
    /\ NumLt(NumAdd(x, Ratio(1, 2)), Num(r + 1))

LeverageSuggestion(signal, finalConfidence, minLeverage, maxLeverage) ==
  LET absConfidence == IF signal = "BUY" THEN finalConfidence
                       ELSE NumSub(Num(1), finalConfidence)
      leverageRange == maxLeverage - minLeverage
      span          == Abs(leverageRange) + 1
  IN  Round(NumAdd(Num(minLeverage), NumMul(Num(leverageRange), absConfidence)),
            minLeverage - 2 * span, maxLeverage + 2 * span)

\* the function throws when it reads a field of the dominant analysis and
\* no timeframe is dominant (none has a confidence other than 0.5)
Threw == [threw |-> TRUE]

\* weightedConfidence / totalWeight + 0.5
FinalConfidence(fused) ==
  NumAdd(NumDiv(fused.weightedConfidence, fused.totalWeight), Ratio(1, 2))

\* a stop 2% below the price whatever the side
StopLossBelow(signal, price) ==
  IF signal \in {"BUY", "SELL"} THEN Ratio(price * 98, 100) ELSE Num(0)

\* stopLossSuggestion: 2% below the price for BUY, 2% above it for SELL
StopLoss(signal, price) ==
  IF signal = "BUY" THEN Ratio(price * 98, 100)
  ELSE IF signal = "SELL" THEN Ratio(price * 102, 100) ELSE Num(0)

\* takeProfitSuggestion: 6% above the price for BUY, 6% below it for SELL
TakeProfit(signal, price) ==
  IF signal = "BUY" THEN Ratio(price * 106, 100)
  ELSE IF signal = "SELL" THEN Ratio(price * 94, 100) ELSE Num(0)

\* the decision returned; chosen is <<signal, elevated>>
Decision(chosen, finalConfidence, timeframe, price, minLeverage, maxLeverage) ==
  [ threw |-> FALSE,
    signal |-> chosen[1],
    confidence |-> IF chosen[1] = "BUY" THEN finalConfidence
                   ELSE IF chosen[1] = "SELL" THEN NumSub(Num(1), finalConfidence)
                   ELSE Ratio(1, 2),
    timeframe |-> timeframe,
    price |-> price,
    elevated |-> chosen[2],
    leverageSuggestion |->
      LeverageSuggestion(chosen[1], finalConfidence, minLeverage, maxLeverage),
    stopLossSuggestion |-> StopLoss(chosen[1], price),
    takeProfitSuggestion |-> TakeProfit(chosen[1], price),
    finalConfidence |-> finalConfidence ]

DecisionFrom(analyses, fused, price, minLeverage, maxLeverage) ==
  IF fused.dominantTimeframe = "" THEN Threw
  ELSE Decision(SignalOf(analyses, FinalConfidence(fused)), FinalConfidence(fused),
                fused.dominantTimeframe, price, minLeverage, maxLeverage)

generateTradingDecision(analyses, price, minLeverage, maxLeverage) ==
  DecisionFrom(analyses, Fuse(analyses), price, minLeverage, maxLeverage)

(***************************************************************************)
(* generateTradingDecision called on mappings of one, two and three        *)
(* timeframes, with and without candle data.                               *)
(***************************************************************************)
Candle(open, high, low, close, volume) ==
  [open |-> open, high |-> high, low |-> low, close |-> close, volume |-> volume]

\* three falling candles on rising volume: THREE_BLACK_CROWS
CrowsCandles ==
  <<Candle(110, 111, 99, 100, 100), Candle(105, 106, 94, 95, 100), Candle(100, 101, 89, 90, 200)>>

\* three rising candles on rising volume: THREE_WHITE_SOLDIERS
SoldiersCandles ==
  <<Candle(100, 111, 99, 110, 100), Candle(105, 116, 104, 115, 100), Candle(110, 121, 109, 120, 200)>>

\* a rising candle swallowed by a falling one: BEARISH_ENGULFING
EngulfedCandles ==
  <<Candle(100, 115, 95, 110, 100), Candle(100, 111, 99, 110, 100), Candle(112, 113, 97, 98, 100)>>

\* three equal candles that show no pattern
QuietCandles ==
  <<Candle(100, 115, 95, 110, 100), Candle(100, 115, 95, 110, 100), Candle(100, 115, 95, 110, 100)>>

\* three candles that close where they opened: DOJI, of significance 40
DojiCandles ==
  <<Candle(100, 110, 90, 100, 100), Candle(100, 110, 90, 100, 100), Candle(100, 110, 90, 100, 100)>>

CandleDatas == {CrowsCandles, SoldiersCandles, EngulfedCandles, QuietCandles, DojiCandles}

\* trend and emaStatus of an analysis
Biases ==
  { <<"neutral", "neutral">>, <<"bullish", "bullish">>, <<"bearish", "bearish">>,
    <<"bullish", "neutral">>, <<"bearish", "neutral">> }

\* confidences, in hundredths
Confidences == {0, 10, 25, 28, 30, 50, 70, 72, 75, 90, 100}
FewConfidences == {10, 28, 50, 72, 90}

Analysis(timeframe, confidence, bias, candleData) ==
  [ timeframe |-> timeframe,
    confidence |-> Ratio(confidence, 100),
    trend |-> bias[1],
    emaStatus |-> bias[2],
    hasCandleData |-> candleData # <<>>,
    candleData |-> candleData,
    candlestickPatterns |-> analyzeCandlestickPatterns(candleData) ]

\* what analyzeSingleTimeframe returns for fewer than 50 candles
ShortHistoryAnalysis(timeframe) == Analysis(timeframe, 0, <<"neutral", "neutral">>, <<>>)

\* analyses without candle data, and analyses that carry candles
PlainAnalyses(timeframe, confidences, biases) ==
  { Analysis(timeframe, c, b, <<>>) : c \in confidences, b \in biases }

CandleAnalyses(timeframe, confidences, candleDatas) ==
  { Analysis(timeframe, c, <<"neutral", "neutral">>, cd) : c \in confidences, cd \in candleDatas }

Mappings ==
  {<<>>}
  \cup { <<a>> : a \in UNION { PlainAnalyses(t, Confidences, Biases)
                                \cup CandleAnalyses(t, {0, 10, 50, 90}, CandleDatas) :
                              t \in {"15m", "1h", "4h", "1w", "2h"} } }
  \cup UNION { { <<a, b>> :
                   a \in PlainAnalyses(pair[1], FewConfidences, Biases)
                           \cup CandleAnalyses(pair[1], {10, 90}, {CrowsCandles, SoldiersCandles}),
                   b \in PlainAnalyses(pair[2], FewConfidences, Biases)
                           \cup CandleAnalyses(pair[2], {10, 90}, {CrowsCandles, SoldiersCandles}) } :
               pair \in {<<"15m", "1h">>, <<"1h", "4h">>} }
  \cup UNION { { <<a, b>> :
                   a \in PlainAnalyses(pair[1], Confidences, {<<"neutral", "neutral">>}),
                   b \in PlainAnalyses(pair[2], Confidences, {<<"neutral", "neutral">>}) } :
               pair \in {<<"4h", "1w">>, <<"2h", "1h">>} }
  \cup { <<a, b, c>> :
           a \in PlainAnalyses("15m", {0, 28, 50, 72, 100}, {<<"neutral", "neutral">>}),
           b \in PlainAnalyses("1h", {0, 28, 50, 72, 100}, {<<"neutral", "neutral">>}),
           c \in PlainAnalyses("4h", {0, 28, 50, 72, 100}, {<<"neutral", "neutral">>}) }

\* currentPrice, minLeverage, maxLeverage
DecisionSettings == {<<100, 10, 50>>, <<3, 1, 1>>, <<250, 3, 20>>}

DecisionInit ==
  /\ \E analyses \in Mappings, setting \in DecisionSettings :
       call = [ fn |-> "generateTradingDecision", analyses |-> analyses,
                currentPrice |-> setting[1], minLeverage |-> setting[2],
                maxLeverage |-> setting[3], returned |-> FALSE ]
  /\ output = NoResult
  /\ candles = <<>>
  /\ initialCapital = 1000
  /\ leverage = 2
  /\ riskPerTrade = 50
  /\ rounding = 0
  /\ pc = "idle"
  /\ capital = Num(initialCapital)
  /\ highWaterMark = Num(initialCapital)
  /\ maxDrawdown = Num(0)
  /\ trades = <<>>
  /\ inPosition = FALSE
  /\ positionType = "LONG"
  /\ entryPrice = 0
  /\ entryTime = 0
  /\ positionSize = Num(0)
  /\ i = Lookback
  /\ currentRsi = Num(50)
  /\ currentEma8 = Undefined
  /\ currentEma21 = Undefined
  /\ currentPrice = 0
  /\ result = NoResult
  /\ entries = 0

\* analysis.candlestickPatterns = supportingPatterns, where patterns were found
StoredPatterns(analysis, patterns) ==
  IF Len(patterns) > 0
    THEN [analysis EXCEPT !.candlestickPatterns = SignificantPatterns(patterns)]
    ELSE analysis

WithSupportingPatterns(analysis) == StoredPatterns(analysis, PatternsOf(analysis))

CallDecision ==
  /\ call.fn = "generateTradingDecision"
  /\ ~call.returned
  /\ output' = generateTradingDecision(call.analyses, call.currentPrice,
                                        call.minLeverage, call.maxLeverage)
  /\ call' = [call EXCEPT !.returned = TRUE,
                          !.analyses = [k \in 1..Len(call.analyses) |->
                                          WithSupportingPatterns(call.analyses[k])]]
  /\ UNCHANGED <<args, pc, account, position, i, indicators, result, entries, rounding>>

DecisionNext == CallDecision

DecisionSpec == DecisionInit /\ [][DecisionNext]_vars

(***************************************************************************)
(* calculateDCALevels(entryPrice, positionType, initialSize, levels,       *)
(* volatility, marketCondition, options). Of a ladder entry the level      *)
(* number and the price are modelled, and which of the two pushes made it  *)
(* (derivation); amount, partialTakeProfit and reinforcementThreshold,     *)
(* and with them initialSize, dcaVariableAmount and dcaReinforcement, do   *)
(* not influence price, level number or length of the ladder and are left  *)
(* out. volatility is in thousandths; entry, side and ladder stand for     *)
(* entryPrice, positionType and result.                                    *)
(***************************************************************************)
\* basePercentages, in hundredths
BasePercentages == <<3, 7, 12, 18, 25>>

\* step 2 of the optimization: the factor on the percentages by market condition
MarketFactor(marketCondition, side) ==
  IF marketCondition = "VOLATILE" THEN Ratio(15, 10)
  ELSE IF marketCondition = "BULLISH" /\ side = "LONG" THEN Ratio(8, 10)
  ELSE IF marketCondition = "BEARISH" /\ side = "SHORT" THEN Ratio(8, 10)
  ELSE Num(1)

\* step 3 of the optimization: the factor on the percentages by price action
ActionFactor(priceAction) ==
  IF priceAction = "RANGING" THEN Ratio(7, 10)
  ELSE IF priceAction = "TRENDING" THEN Ratio(13, 10)
  ELSE Num(1)

\* basePercentages after steps 2 and 3
OptimizedPercentages(useOptimization, marketCondition, side, priceAction) ==
  [ k \in 1..Len(BasePercentages) |->
      IF useOptimization
        THEN NumMul(NumMul(Ratio(BasePercentages[k], 100),
                           MarketFactor(marketCondition, side)),
                    ActionFactor(priceAction))
        ELSE Ratio(BasePercentages[k], 100) ]

\* [...supportResistance].sort: ascending for LONG, descending for SHORT
InsertLevel(sorted, x, side) ==
  LET before == { k \in 1..Len(sorted) :
                    IF side = "LONG" THEN sorted[k] <= x ELSE sorted[k] >= x }
  IN  SubSeq(sorted, 1, Cardinality(before)) \o <<x>>
        \o SubSeq(sorted, Cardinality(before) + 1, Len(sorted))

RECURSIVE SortLevels(_, _, _)
SortLevels(supportResistance, n, side) ==
  IF n = 0 THEN <<>>
  ELSE InsertLevel(SortLevels(supportResistance, n - 1, side),
                   supportResistance[n], side)

\* the filter: levels on the adverse side of the entry price
OnAdverseSide(level, entry, side) ==
  IF side = "LONG" THEN level < entry ELSE level > entry

\* nearestLevels: the sorted levels, filtered, cut to Math.min(levels, relevantLevels.length)
NearestLevels(supportResistance, entry, side, levels) ==
  LET relevantLevels == SortLevels(supportResistance, Len(supportResistance), side)
      filtered == SelectSeq(relevantLevels,
                            LAMBDA level : OnAdverseSide(level, entry, side))
  IN  SubSeq(filtered, 1, Min(Len(filtered), Min(levels, Len(relevantLevels))))

\* percentFromEntry > 0.01 && percentFromEntry < 0.30
InReasonableRange(level, entry) ==
  /\ 100 * Abs(level - entry) > entry
  /\ 100 * Abs(level - entry) < 30 * entry

LadderEntry(ladder, price, derivation) ==
  [level |-> Len(ladder) + 1, price |-> price, derivation |-> derivation]

\* the loop that pushes the support/resistance entries, from nearestLevels[i] on
RECURSIVE SubstituteFrom(_, _, _, _, _)
SubstituteFrom(nearestLevels, k, ladder, entry, levels) ==
  IF k > Len(nearestLevels) \/ Len(ladder) >= levels THEN ladder
  ELSE SubstituteFrom(nearestLevels, k + 1,
                      IF InReasonableRange(nearestLevels[k], entry)
                        THEN Append(ladder, LadderEntry(ladder, Num(nearestLevels[k]),
                                                        "supportResistance"))
                        ELSE ladder,
                      entry, levels)

\* basePercentages.slice(0, Math.max(1, levels - nearestLevels.length))
KeptPercentages(percentages, levels, nearestLevels) ==
  IF Len(nearestLevels) > 0
    THEN SubSeq(percentages, 1, Min(Len(percentages), Max(1, levels - Len(nearestLevels))))
    ELSE percentages

\* 1 + volatility * (useOptimization ? 25 : 15)
VolatilityMultiplier(volatility, useOptimization) ==
  Ratio(1000 + volatility * (IF useOptimization THEN 25 ELSE 15), 1000)

\* entryPrice * (1 + multiplier * adjustedPercentage)
DcaPrice(entry, side, adjustedPercentage) ==
  NumMul(Num(entry),
         IF side = "LONG" THEN NumSub(Num(1), adjustedPercentage)
                                  ELSE NumAdd(Num(1), adjustedPercentage))

\* the loop that pushes the percentage entries, from basePercentages[k] on
RECURSIVE PercentageFrom(_, _, _, _, _, _, _)
PercentageFrom(percentages, k, last, ladder, entry, side, volatilityMultiplier) ==
  IF k > last THEN ladder
  ELSE PercentageFrom(percentages, k + 1, last,
                      Append(ladder,
                             LadderEntry(ladder,
                                         DcaPrice(entry, side,
                                                  NumMul(percentages[k], volatilityMultiplier)),
                                         "percentage")),
                      entry, side, volatilityMultiplier)

\* result.sort by price, highest first for LONG, lowest first for SHORT; the
\* sort is stable
InsertByPrice(sorted, e, side) ==
  LET before == { k \in 1..Len(sorted) :
                    IF side = "LONG" THEN NumLe(e.price, sorted[k].price)
                                             ELSE NumLe(sorted[k].price, e.price) }
  IN  SubSeq(sorted, 1, Cardinality(before)) \o <<e>>
        \o SubSeq(sorted, Cardinality(before) + 1, Len(sorted))

RECURSIVE SortByPrice(_, _, _)
SortByPrice(ladder, n, side) ==
  IF n = 0 THEN <<>>
  ELSE InsertByPrice(SortByPrice(ladder, n - 1, side), ladder[n], side)

\* the ladder in the order of its pushes
Unsorted(ladder, side) == ladder

Sorted(ladder, side) == SortByPrice(ladder, Len(ladder), side)

\* result[i].level = i + 1
Renumbered(ladder) == [k \in 1..Len(ladder) |-> [ladder[k] EXCEPT !.level = k]]

\* the ladder completed by the percentage entries, sorted and renumbered
CompletedLadder(ladder, percentages, entry, side, levels, volatilityMultiplier) ==
  Renumbered(Sorted(
    PercentageFrom(percentages, 1, Min(levels - Len(ladder), Len(percentages)), ladder,
                   entry, side, volatilityMultiplier),
    side))

\* the ladder with the support/resistance entries of nearestLevels in front
SubstitutedLadder(nearestLevels, percentages, entry, side, levels, volatilityMultiplier) ==
  CompletedLadder(SubstituteFrom(nearestLevels, 1, <<>>, entry, levels),
                  KeptPercentages(percentages, levels, nearestLevels),
                  entry, side, levels, volatilityMultiplier)

calculateDCALevels(entry, side, levels, volatility, marketCondition, useOptimization, useAdaptivePositioning, priceAction, supportResistance) ==
  SubstitutedLadder(
    IF useOptimization /\ useAdaptivePositioning /\ Len(supportResistance) > 0
      THEN NearestLevels(supportResistance, entry, side, levels)
      ELSE <<>>,
    OptimizedPercentages(useOptimization, marketCondition, side, priceAction),
    entry, side, levels, VolatilityMultiplier(volatility, useOptimization))

\* the earlier calculateDCALevels(entryPrice, positionType, initialSize, levels,
\* volatility): percentage entries only, spaced by 1 + volatility * 10, not sorted
calculateDCALevelsPlain(entry, side, levels, volatility) ==
  PercentageFrom([k \in 1..Len(BasePercentages) |-> Ratio(BasePercentages[k], 100)],
                 1, Min(levels, Len(BasePercentages)), <<>>, entry, side,
                 Ratio(1000 + volatility * 10, 1000))

(***************************************************************************)
(* calculateDCALevels called with and without optimization, adaptive       *)
(* positioning and support/resistance levels, and the earlier              *)
(* calculateDCALevels called on the same positions.                        *)
(***************************************************************************)
MaxLevels == 6

\* entry prices; the support/resistance levels below lie around the first
DcaEntry == 100
DcaEntries == {DcaEntry, 40}

\* volatility, in thousandths
Volatilities == {0, 10, 50}

MarketConditions == {"NEUTRAL", "BULLISH", "BEARISH", "VOLATILE"}

PriceActions == {"UNKNOWN", "RANGING", "TRENDING"}

\* supportResistance: levels on both sides of the entry price, near and far
SupportResistances ==
  { <<95>>, <<105>>, <<97, 103>>, <<90, 95, 105, 110>>, <<99, 60, 95, 101, 140, 106>>,
    <<80, 85, 90, 95, 120, 115, 110, 105>>, <<99, 101>>, <<95, 95, 105, 105>>,
    <<88, 93, 107, 112>>, <<100>> }

DcaCall(fn, entry, side, levels, volatility, marketCondition, useOptimization, useAdaptivePositioning, priceAction, supportResistance) ==
  [ fn |-> fn, entryPrice |-> entry, positionType |-> side, levels |-> levels,
    volatility |-> volatility, marketCondition |-> marketCondition,
    dcaOptimization |-> useOptimization,
    dcaAdaptivePositioning |-> useAdaptivePositioning,
    priceAction |-> priceAction, supportResistance |-> supportResistance,
    returned |-> FALSE ]

DcaCalls ==
  { DcaCall("calculateDCALevels", e, s, n, v, m, FALSE, FALSE, "UNKNOWN", <<>>) :
      e \in DcaEntries, s \in {"LONG", "SHORT"}, n \in 0..MaxLevels,
      v \in Volatilities, m \in MarketConditions }
  \cup { DcaCall("calculateDCALevels", DcaEntry, s, n, v, m, TRUE, FALSE, a, <<>>) :
           s \in {"LONG", "SHORT"}, n \in 0..MaxLevels, v \in Volatilities,
           m \in MarketConditions, a \in PriceActions }
  \cup { DcaCall("calculateDCALevels", DcaEntry, s, n, v, m, TRUE, b, a, sr) :
           s \in {"LONG", "SHORT"}, n \in 0..MaxLevels, v \in {0, 10},
           m \in {"NEUTRAL", "BULLISH", "VOLATILE"}, b \in BOOLEAN,
           a \in {"UNKNOWN", "RANGING"}, sr \in SupportResistances }
  \cup { DcaCall("calculateDCALevels (earlier)", e, s, n, v, "NEUTRAL", FALSE, FALSE,
                 "UNKNOWN", <<>>) :
           e \in DcaEntries, s \in {"LONG", "SHORT"}, n \in 0..MaxLevels,
           v \in Volatilities }

DcaInit ==
  /\ call \in DcaCalls
  /\ output = NoResult
  /\ candles = <<>>
  /\ initialCapital = 1000
  /\ leverage = 2
  /\ riskPerTrade = 50
  /\ rounding = 0
  /\ pc = "idle"
  /\ capital = Num(initialCapital)
  /\ highWaterMark = Num(initialCapital)
  /\ maxDrawdown = Num(0)
  /\ trades = <<>>
  /\ inPosition = FALSE
  /\ positionType = "LONG"
  /\ entryPrice = 0
  /\ entryTime = 0
  /\ positionSize = Num(0)
  /\ i = Lookback
  /\ currentRsi = Num(50)
  /\ currentEma8 = Undefined
  /\ currentEma21 = Undefined
  /\ currentPrice = 0
  /\ result = NoResult
  /\ entries = 0

CallDCALevels ==
  /\ call.fn = "calculateDCALevels"
  /\ ~call.returned
  /\ output' = calculateDCALevels(call.entryPrice, call.positionType, call.levels,
                                   call.volatility, call.marketCondition,
                                   call.dcaOptimization, call.dcaAdaptivePositioning,
                                   call.priceAction, call.supportResistance)
  /\ call' = [call EXCEPT !.returned = TRUE]
  /\ UNCHANGED <<args, pc, account, position, i, indicators, result, entries, rounding>>

CallDCALevelsPlain ==
  /\ call.fn = "calculateDCALevels (earlier)"
  /\ ~call.returned
  /\ output' = calculateDCALevelsPlain(call.entryPrice, call.positionType, call.levels,
                                        call.volatility)
  /\ call' = [call EXCEPT !.returned = TRUE]
  /\ UNCHANGED <<args, pc, account, position, i, indicators, result, entries, rounding>>

DcaNext == CallDCALevels \/ CallDCALevelsPlain

DcaSpec == DcaInit /\ [][DcaNext]_vars

(***************************************************************************)
(* Properties of backtestStrategy, checked under Spec.                     *)
(***************************************************************************)
Returned == pc = "done"

\* entries made that no trade of the ledger has closed yet
OpenPositions == entries - Len(trades)

(***************************************************************************)
(* C1: the simulator holds at most one open position: a position is opened *)
(* only when it is flat, a trade is appended exactly when the open         *)
(* position is closed (by the exit rule inside the loop or by the final    *)
(* close), and on return the ledger has one trade for every entry made, so *)
(* that no entry is left without its closing trade.                        *)
(***************************************************************************)
C1_OnePositionAtATime ==
  /\ [](/\ OpenPositions \in {0, 1}
        /\ (pc \in {"loop", "entry", "close"} => (inPosition <=> OpenPositions = 1))
        /\ (Returned => /\ OpenPositions = 0
                        /\ result.totalTrades = entries
                        /\ Len(result.trades) = entries))
  /\ [][/\ (entries' # entries =>
              /\ ~inPosition /\ inPosition'
              /\ entries' = entries + 1
              /\ trades' = trades)
        /\ (trades' # trades =>
              /\ inPosition
              /\ Len(trades') = Len(trades) + 1
              /\ entries' = entries
              /\ (inPosition' => pc = "close"))
        /\ ((inPosition /\ ~inPosition') => Len(trades') = Len(trades) + 1)
        /\ ((pc = "close" /\ inPosition) => Len(trades') = Len(trades) + 1)]_vars

\* two positions were opened one after the other and the run has returned
C1_Witness == Returned /\ entries = 2 /\ Len(result.trades) = 2

\* the largest (peak - capital) / peak over the capital after each trade of ts
RECURSIVE LedgerDrawdown(_, _, _, _, _)
LedgerDrawdown(ts, k, cap, peak, worst) ==
  IF k > Len(ts) THEN worst
  ELSE LET after    == NumAdd(cap, ts[k].profit)
           newPeak  == IF NumGt(after, peak) THEN after ELSE peak
           drawdown == NumDiv(NumSub(newPeak, after), newPeak)
       IN  LedgerDrawdown(ts, k + 1, after, newPeak,
                          IF NumGt(drawdown, worst) THEN drawdown ELSE worst)

(***************************************************************************)
(* C2: the maxDrawdown returned is the largest (peak - capital) / peak     *)
(* over the capital after every trade of the ledger, the trade of the      *)
(* final close included, peak being the running maximum of the capital     *)
(* from initialCapital on.                                                 *)
(***************************************************************************)
C2_DrawdownOverEveryTrade ==
  Returned =>
    NumEq(result.maxDrawdown,
          LedgerDrawdown(result.trades, 1, Num(initialCapital), Num(initialCapital), Num(0)))

\* profit of a position, written as one quotient
PositionProfit(type, size, entry, exitPrice, lev) ==
  LET move == IF type = "LONG" THEN exitPrice - entry ELSE entry - exitPrice
  IN  NumDiv(NumMul(size, Num(move * lev)), Num(entry))

(***************************************************************************)
(* C3: a position still open when the loop has ended is closed at the      *)
(* close of the last candle of the series: one trade is appended with that *)
(* close as exitPrice and that candle's time as exitTime, and its profit   *)
(* is added to the capital; with no open position the ledger and the       *)
(* capital stay as they are.                                               *)
(***************************************************************************)
C3_FinalCloseAtLastCandle ==
  [][pc = "close" =>
       IF inPosition
         THEN /\ Len(trades') = Len(trades) + 1
              /\ SubSeq(trades', 1, Len(trades)) = trades
              /\ LET t == trades'[Len(trades')]
                 IN  /\ t.exitPrice = candles[Len(candles)].close
                     /\ t.exitTime = candles[Len(candles)].time
                     /\ t.entryPrice = entryPrice
                     /\ t.entryTime = entryTime
                     /\ t.type = positionType
                     /\ NumEq(t.profit,
                              PositionProfit(positionType, positionSize, entryPrice,
                                             candles[Len(candles)].close, leverage))
                     /\ NumEq(capital', NumAdd(capital, t.profit))
         ELSE trades' = trades /\ capital' = capital]_vars

\* the final close has closed a position at a price the loop never saw
C3_Witness ==
  /\ pc = "stats"
  /\ inPosition
  /\ trades # <<>>
  /\ trades[Len(trades)].exitTime = candles[Len(candles)].time
  /\ trades[Len(trades)].exitPrice # currentPrice
  /\ ~NumIsZero(trades[Len(trades)].profit)

(***************************************************************************)
(* C4: with fewer than 50 candles backtestStrategy returns a result with   *)
(* no trade, all the counts and rates 0, and finalCapital equal to         *)
(* initialCapital.                                                         *)
(***************************************************************************)
C4_TooFewCandlesAllZero ==
  (Returned /\ Len(candles) < MinCandles) =>
    /\ result.totalTrades = 0
    /\ result.winningTrades = 0
    /\ result.losingTrades = 0
    /\ result.trades = <<>>
    /\ \A x \in { result.winRate, result.totalReturn, result.netProfit,
                  result.netProfitPercent, result.maxDrawdown, result.profitFactor } :
         IsFinite(x) /\ NumIsZero(x)
    /\ NumEq(result.finalCapital, Num(initialCapital))

\* the call with 49 candles has returned
C4_Witness == Returned /\ Len(candles) = MinCandles - 1 /\ result.totalTrades = 0

\* the trades of ts whose profit is > 0, counted one by one
RECURSIVE CountWon(_)
CountWon(ts) ==
  IF ts = <<>> THEN 0
  ELSE (IF NumGt(Head(ts).profit, Num(0)) THEN 1 ELSE 0) + CountWon(Tail(ts))

(***************************************************************************)
(* C5: in every result winningTrades + losingTrades = totalTrades = the    *)
(* length of trades; a trade counts as won when its profit is > 0 and as   *)
(* lost otherwise, a profit of exactly 0 included.                         *)
(***************************************************************************)
C5_EveryTradeCountedOnce ==
  Returned =>
    /\ result.totalTrades = Len(result.trades)
    /\ result.winningTrades + result.losingTrades = result.totalTrades
    /\ result.winningTrades = CountWon(result.trades)
    /\ result.losingTrades = Len(result.trades) - CountWon(result.trades)

\* a ledger with a trade of profit 0 beside a trade that won
C5_Witness ==
  /\ Returned
  /\ \E k \in 1..Len(result.trades) : NumIsZero(result.trades[k].profit)
  /\ result.winningTrades = 1
  /\ result.losingTrades = 1

\* the sum of the profits > 0 (won) or of the profits <= 0 (lost) of ts
RECURSIVE Gross(_, _)
Gross(ts, won) ==
  IF ts = <<>> THEN Num(0)
  ELSE LET rest == Gross(SubSeq(ts, 1, Len(ts) - 1), won)
           p    == ts[Len(ts)].profit
       IN  IF NumGt(p, Num(0)) = won THEN NumAdd(rest, p) ELSE rest

(***************************************************************************)
(* C6: profitFactor is gross profit / gross loss when the gross loss is    *)
(* > 0, +Infinity when the gross loss is 0 and the gross profit is > 0,    *)
(* and 0 when both are 0; it is never NaN.                                 *)
(***************************************************************************)
C6_ProfitFactorDefined ==
  Returned =>
    LET grossProfit == Gross(result.trades, TRUE)
        grossLoss   == NumAbs(Gross(result.trades, FALSE))
    IN  /\ result.profitFactor # NaN
        /\ IF NumGt(grossLoss, Num(0))
             THEN /\ IsFinite(result.profitFactor)
                  /\ NumEq(result.profitFactor, NumDiv(grossProfit, grossLoss))
           ELSE IF NumGt(grossProfit, Num(0))
             THEN result.profitFactor = Infinity
           ELSE IsFinite(result.profitFactor) /\ NumIsZero(result.profitFactor)

\* a ledger made only of trades of profit 0
C6_Witness ==
  /\ Returned
  /\ result.trades # <<>>
  /\ \A k \in 1..Len(result.trades) : NumIsZero(result.trades[k].profit)
  /\ NumIsZero(result.profitFactor)

\* two numbers of the result are the same JavaScript value
SameValue(x, y) ==
  IF IsFinite(x) /\ IsFinite(y) THEN NumEq(x, y) ELSE x = y

(***************************************************************************)
(* C7: the summary can be recomputed from result.trades alone: the number  *)
(* of trades, of trades with profit > 0 and with profit <= 0, the win rate *)
(* 100 * won / total (0 without trades) and the profit factor with its     *)
(* sentinels are the totalTrades, winningTrades, losingTrades, winRate and *)
(* profitFactor of the same result.                                        *)
(***************************************************************************)
C7_SummaryFromLedger ==
  Returned =>
    LET ts     == result.trades
        total  == Len(ts)
        won    == Cardinality({k \in 1..total : ~NumLe(ts[k].profit, Num(0))})
        lost   == Cardinality({k \in 1..total : ~NumGt(ts[k].profit, Num(0))})
        rate   == IF total = 0 THEN Num(0) ELSE NumDiv(Num(100 * won), Num(total))
        profit == Gross(ts, TRUE)
        loss   == NumAbs(Gross(ts, FALSE))
        factor == IF ~NumIsZero(loss) THEN NumDiv(profit, loss)
                  ELSE IF ~NumIsZero(profit) THEN Infinity ELSE Num(0)
    IN  /\ result.totalTrades = total
        /\ result.winningTrades = won
        /\ result.losingTrades = lost
        /\ SameValue(result.winRate, rate)
        /\ SameValue(result.profitFactor, factor)

\* a ledger of one trade won and one trade lost
C7_Witness ==
  /\ Returned
  /\ result.totalTrades = 2
  /\ result.winningTrades = 1
  /\ IsFinite(result.profitFactor)
  /\ NumGt(result.profitFactor, Num(0))

(***************************************************************************)
(* C8: on a series of at least 50 candles with one and the same close      *)
(* backtestStrategy opens no position: totalTrades = 0 and finalCapital =  *)
(* initialCapital.                                                         *)
(***************************************************************************)
C8_FlatSeriesNeverTrades ==
  (Returned /\ Len(candles) >= MinCandles /\ IsConstant(candles)) =>
    /\ result.totalTrades = 0
    /\ NumEq(result.finalCapital, Num(initialCapital))

(***************************************************************************)
(* Properties of calculateRSI, checked under IndicatorSpec.                *)
(***************************************************************************)
RsiReturned == call.fn = "calculateRSI" /\ call.returned

(***************************************************************************)
(* C9: on constant closes with at least period + 1 candles calculateRSI    *)
(* returns exactly 50 at the first index it computes (index = period).     *)
(***************************************************************************)
C9_ConstantSeriesRsi50 ==
  (/\ RsiReturned
   /\ Len(call.closes) >= call.period + 1
   /\ \A k \in 1..Len(call.closes) : call.closes[k] = call.closes[1]) =>
    /\ IsFinite(output[call.period + 1])
    /\ NumEq(output[call.period + 1], Num(50))

(***************************************************************************)
(* C10: on strictly increasing closes with at least period + 1 candles     *)
(* every value calculateRSI computes from index = period on is 100, the    *)
(* output is as long as the input, and its first `period` entries, and no  *)
(* others, are undefined.                                                  *)
(***************************************************************************)
C10_RisingSeriesRsi100 ==
  (/\ RsiReturned
   /\ Len(call.closes) >= call.period + 1
   /\ \A k \in 1..(Len(call.closes) - 1) : call.closes[k] < call.closes[k + 1]) =>
    /\ DOMAIN output = 1..Len(call.closes)
    /\ \A k \in 1..Len(call.closes) :
         IF k <= call.period
           THEN output[k] = Undefined
           ELSE IsFinite(output[k]) /\ NumEq(output[k], Num(100))

\* a rising series of uneven steps, longer than the warm-up of 14
C10_Witness ==
  /\ RsiReturned
  /\ call.period = RsiPeriod
  /\ Len(call.closes) > RsiPeriod + 1
  /\ \A k \in 1..(Len(call.closes) - 1) : call.closes[k] < call.closes[k + 1]
  /\ NumEq(output[Len(call.closes)], Num(100))

(***************************************************************************)
(* Properties of calculateEMA, checked under IndicatorSpec.                *)
(***************************************************************************)
EmaReturned == call.fn = "calculateEMA" /\ call.returned

\* the sum of the first n prices
RECURSIVE SumFirst(_, _)
SumFirst(prices, n) == IF n = 0 THEN 0 ELSE SumFirst(prices, n - 1) + prices[n]

(***************************************************************************)
(* C11: on at least `period` prices calculateEMA returns an array as long  *)
(* as its input; the entries before index period - 1 are undefined, the    *)
(* entry at index period - 1 is the average of the first `period` prices,  *)
(* and every later entry is                                                *)
(* (price[i] - ema[i-1]) * 2 / (period + 1) + ema[i-1].                    *)
(***************************************************************************)
C11_EmaSeedAndRecurrence ==
  (EmaReturned /\ Len(call.closes) >= call.period) =>
    /\ DOMAIN output = 1..Len(call.closes)
    /\ \A k \in 1..Len(call.closes) :
         IF k < call.period THEN output[k] = Undefined
         ELSE IF k = call.period
           THEN /\ IsFinite(output[k])
                /\ NumEq(output[k], NumDiv(Num(SumFirst(call.closes, call.period)),
                                           Num(call.period)))
         ELSE /\ IsFinite(output[k])
              /\ NumEq(output[k],
                       NumAdd(NumMul(NumSub(Num(call.closes[k]), output[k - 1]),
                                     NumDiv(Num(2), Num(call.period + 1))),
                              output[k - 1]))

\* an EMA of period 8 over a series of uneven steps, past its seed
C11_Witness ==
  /\ EmaReturned
  /\ call.period = EmaFast
  /\ Len(call.closes) > EmaFast + 2
  /\ call.closes[2] # call.closes[1]
  /\ IsFinite(output[Len(call.closes)])
  /\ ~NumEq(output[Len(call.closes)], output[Len(call.closes) - 1])

(***************************************************************************)
(* C12: on fewer than `period` prices calculateEMA returns an array as     *)
(* long as its input with no defined value in it: it neither grows the     *)
(* array nor computes a value from the partial window.                     *)
(***************************************************************************)
C12_EmaShortInputUndefined ==
  (EmaReturned /\ Len(call.closes) < call.period) =>
    /\ DOMAIN output = 1..Len(call.closes)
    /\ \A k \in DOMAIN output : output[k] = Undefined

(***************************************************************************)
(* Properties of generateTradingDecision                                   *)
(***************************************************************************)
\* the call returned a decision
Decided == call.fn = "generateTradingDecision" /\ call.returned /\ ~output.threw

\* no timeframe of the mapping carries candle data
NoCandleData == \A k \in 1..Len(call.analyses) : ~call.analyses[k].hasCandleData

\* sum of w * (c - 0.5) and sum of w over the first n timeframes, w in hundredths
RECURSIVE SumCentred(_, _)
SumCentred(analyses, n) ==
  IF n = 0 THEN Num(0)
  ELSE NumAdd(SumCentred(analyses, n - 1),
              NumMul(Num(TimeframeWeight(analyses[n].timeframe)),
                     NumSub(analyses[n].confidence, Ratio(1, 2))))

RECURSIVE SumWeights(_, _)
SumWeights(analyses, n) ==
  IF n = 0 THEN 0 ELSE SumWeights(analyses, n - 1) + TimeframeWeight(analyses[n].timeframe)

\* C13: without candle data the fused confidence is the weighted mean
\* (sum of w * (c - 0.5)) / (sum of w) + 0.5 of the timeframe confidences, with
\* the weights of the table and 0.1 for a label the table does not have; for
\* one timeframe it is that timeframe's confidence whatever its weight, and
\* for several it lies between the smallest and the largest confidence.
C13_FusedIsWeightedMean ==
  (Decided /\ NoCandleData) =>
    /\ NumEq(NumMul(NumSub(output.finalConfidence, Ratio(1, 2)),
                    Num(SumWeights(call.analyses, Len(call.analyses)))),
             SumCentred(call.analyses, Len(call.analyses)))
    /\ Len(call.analyses) = 1 =>
         NumEq(output.finalConfidence, call.analyses[1].confidence)
    /\ \E k \in 1..Len(call.analyses) :
         NumLe(call.analyses[k].confidence, output.finalConfidence)
    /\ \E k \in 1..Len(call.analyses) :
         NumLe(output.finalConfidence, call.analyses[k].confidence)

\* a lone timeframe of a label outside the table at 0.9 gave BUY with confidence 0.9
C13_Witness ==
  /\ Decided /\ NoCandleData
  /\ Len(call.analyses) = 1
  /\ call.analyses[1].timeframe = "2h"
  /\ NumEq(call.analyses[1].confidence, Ratio(9, 10))
  /\ output.signal = "BUY"
  /\ NumEq(output.confidence, Ratio(9, 10))

\* the trend of the first timeframe and the EMA status of the second agree on value
PairAgrees(first, second, value) ==
  /\ \E k \in 1..Len(call.analyses) :
       call.analyses[k].timeframe = first /\ call.analyses[k].trend = value
  /\ \E k \in 1..Len(call.analyses) :
       call.analyses[k].timeframe = second /\ call.analyses[k].emaStatus = value

ConfiguredPairAgrees(value) ==
  PairAgrees("15m", "1h", value) \/ PairAgrees("1h", "4h", value)

\* C14: the signal is BUY whenever the fused confidence is above 0.75 and SELL
\* whenever it is below 0.25; in between it is NEUTRAL unless the borderline
\* elevation applies, which gives BUY only above 0.70 and SELL only below 0.30,
\* only when trend and EMA status of a configured timeframe pair agree, and
\* which then leaves its note in the reasoning; from 0.30 to 0.70 the signal
\* is always NEUTRAL.
C14_SignalSelection ==
  Decided =>
    /\ output.signal \in {"BUY", "SELL", "NEUTRAL"}
    /\ NumGt(output.finalConfidence, Ratio(75, 100)) =>
         output.signal = "BUY" /\ ~output.elevated
    /\ NumLt(output.finalConfidence, Ratio(25, 100)) =>
         output.signal = "SELL" /\ ~output.elevated
    /\ (output.signal = "BUY" /\ NumLe(output.finalConfidence, Ratio(75, 100))) =>
         /\ NumGt(output.finalConfidence, Ratio(70, 100))
         /\ ConfiguredPairAgrees("bullish")
         /\ output.elevated
    /\ (output.signal = "SELL" /\ NumLe(Ratio(25, 100), output.finalConfidence)) =>
         /\ NumLt(output.finalConfidence, Ratio(30, 100))
         /\ ConfiguredPairAgrees("bearish")
         /\ output.elevated
    /\ output.elevated => output.signal \in {"BUY", "SELL"}
    /\ (NumLe(Ratio(30, 100), output.finalConfidence)
          /\ NumLe(output.finalConfidence, Ratio(70, 100))) => output.signal = "NEUTRAL"

\* a fused confidence of 0.72 was lifted to BUY by the 15m trend and the 1h EMA status
C14_Witness ==
  /\ Decided
  /\ NumEq(output.finalConfidence, Ratio(72, 100))
  /\ PairAgrees("15m", "1h", "bullish")
  /\ output.signal = "BUY"
  /\ output.elevated

\* every timeframe confidence of the call is in [0,1]
ConfidencesInUnitInterval ==
  \A k \in 1..Len(call.analyses) :
    NumLe(Num(0), call.analyses[k].confidence) /\ NumLe(call.analyses[k].confidence, Num(1))

\* C15: for timeframe confidences in [0,1], candle data and pattern
\* adjustments included, the confidence of the decision returned lies in
\* [0,1]; it is the fused confidence for BUY and 1 - fused confidence for SELL.
C15_ConfidenceInUnitInterval ==
  (Decided /\ ConfidencesInUnitInterval) =>
    /\ NumLe(Num(0), output.confidence)
    /\ NumLe(output.confidence, Num(1))
    /\ output.signal = "BUY" => NumEq(output.confidence, output.finalConfidence)
    /\ output.signal = "SELL" =>
         NumEq(output.confidence, NumSub(Num(1), output.finalConfidence))

\* r is x rounded to the nearest whole number, halves upwards
IsRounded(r, x) ==
  NumLe(Num(r), NumAdd(x, Ratio(1, 2))) /\ NumLt(NumAdd(x, Ratio(1, 2)), Num(r + 1))

\* C16: for minLeverage <= maxLeverage the suggested leverage is
\* round(minLeverage + (maxLeverage - minLeverage) * signal-side confidence)
\* and lies in [minLeverage, maxLeverage], for every signal and with or
\* without pattern adjustments.
C16_LeverageInRange ==
  (Decided /\ ConfidencesInUnitInterval /\ call.minLeverage <= call.maxLeverage) =>
    /\ call.minLeverage <= output.leverageSuggestion
    /\ output.leverageSuggestion <= call.maxLeverage
    /\ output.signal \in {"BUY", "SELL"} =>
         IsRounded(output.leverageSuggestion,
                   NumAdd(Num(call.minLeverage),
                          NumMul(Num(call.maxLeverage - call.minLeverage),
                                 output.confidence)))

\* percent hundredths of the current price of the call
OfPrice(percent) == NumMul(Ratio(percent, 100), Num(call.currentPrice))

\* C17: for a positive price the suggested stop-loss and take-profit are on
\* the right sides of it: BUY has stopLoss = 0.98 * price < price <
\* takeProfit = 1.06 * price, SELL has takeProfit = 0.94 * price < price <
\* stopLoss = 1.02 * price, and NEUTRAL has both equal to 0.
C17_StopAndTargetSides ==
  (Decided /\ call.currentPrice > 0) =>
    /\ output.signal = "BUY" =>
         /\ NumEq(output.stopLossSuggestion, OfPrice(98))
         /\ NumEq(output.takeProfitSuggestion, OfPrice(106))
         /\ NumLt(output.stopLossSuggestion, Num(output.price))
         /\ NumLt(Num(output.price), output.takeProfitSuggestion)
    /\ output.signal = "SELL" =>
         /\ NumEq(output.takeProfitSuggestion, OfPrice(94))
         /\ NumEq(output.stopLossSuggestion, OfPrice(102))
         /\ NumLt(output.takeProfitSuggestion, Num(output.price))
         /\ NumLt(Num(output.price), output.stopLossSuggestion)
    /\ output.signal = "NEUTRAL" =>
         /\ NumIsZero(output.stopLossSuggestion)
         /\ NumIsZero(output.takeProfitSuggestion)
    /\ output.price = call.currentPrice

\* a SELL at price 250 with its target at 235 and its stop at 255
C17_Witness ==
  /\ Decided
  /\ call.currentPrice = 250
  /\ output.signal = "SELL"
  /\ NumEq(output.takeProfitSuggestion, Num(235))
  /\ NumEq(output.stopLossSuggestion, Num(255))

\* the k-th timeframe of the call is the analysis of a history of fewer than 50 candles
IsShortHistory(k) ==
  call.analyses[k] = ShortHistoryAnalysis(call.analyses[k].timeframe)

\* the fused confidence of the mapping without its last timeframe
FusedWithoutLast ==
  FinalConfidence(Fuse(SubSeq(call.analyses, 1, Len(call.analyses) - 1)))

\* C18: a timeframe with fewer than 50 candles is analysed as neutral with
\* confidence 0 and enters the weighted average with its full weight; adding
\* it to a mapping never moves the fused confidence further away from 0.5,
\* and a mapping made only of such timeframes gives neither BUY nor SELL.
C18_ShortHistoryOnlyDilutes ==
  Decided =>
    /\ (\A k \in 1..Len(call.analyses) : IsShortHistory(k)) => output.signal = "NEUTRAL"
    /\ (Len(call.analyses) >= 2 /\ IsShortHistory(Len(call.analyses))) =>
         NumLe(NumAbs(NumSub(output.finalConfidence, Ratio(1, 2))),
               NumAbs(NumSub(FusedWithoutLast, Ratio(1, 2))))

(***************************************************************************)
(* Properties of calculateDCALevels                                        *)
(***************************************************************************)
\* either calculateDCALevels returned its ladder
LadderReturned ==
  call.fn \in {"calculateDCALevels", "calculateDCALevels (earlier)"} /\ call.returned

\* C19: for entryPrice > 0 and volatility >= 0 and every option combination
\* the ladder is ordered nearest trigger first: for LONG every price is below
\* the entry price and the prices descend, for SHORT every price is above it
\* and the prices ascend, and the level numbers are 1, 2, ..., N in that
\* order; entry 100, LONG, 3 levels, volatility 0.01 gives 3 levels with
\* strictly decreasing prices below 100.
C19_LadderNearestFirst ==
  LadderReturned =>
    /\ \A k \in 1..Len(output) : output[k].level = k
    /\ \A k \in 1..Len(output) :
         IF call.positionType = "LONG"
           THEN NumLt(output[k].price, Num(call.entryPrice))
           ELSE NumGt(output[k].price, Num(call.entryPrice))
    /\ \A k \in 1..(Len(output) - 1) :
         IF call.positionType = "LONG"
           THEN NumLe(output[k + 1].price, output[k].price)
           ELSE NumLe(output[k].price, output[k + 1].price)
    /\ (call.entryPrice = 100 /\ call.positionType = "LONG" /\ call.levels = 3
          /\ call.volatility = 10 /\ call.supportResistance = <<>>) =>
         /\ Len(output) = 3
         /\ \A k \in 1..2 : NumLt(output[k + 1].price, output[k].price)

\* a LONG ladder of three levels in which a support level was pushed first
\* and sorted behind the percentage level
C19_Witness ==
  /\ LadderReturned
  /\ call.positionType = "LONG"
  /\ Len(output) = 3
  /\ output[1].derivation = "percentage"
  /\ output[3].derivation = "supportResistance"
  /\ NumLt(output[3].price, output[1].price)

\* support/resistance levels were substituted into the ladder
Substituted ==
  /\ call.fn = "calculateDCALevels" /\ call.returned
  /\ call.dcaOptimization /\ call.dcaAdaptivePositioning
  /\ \E k \in 1..Len(output) : output[k].derivation = "supportResistance"

\* C20: with adaptive positioning enabled and support/resistance levels
\* substituted into the ladder, the ladder still contains at least one
\* percentage-derived level, for every requested level count >= 1 and every
\* set of supplied levels.
C20_KeepsOnePercentageLevel ==
  (Substituted /\ call.levels >= 1) =>
    \E k \in 1..Len(output) : output[k].derivation = "percentage"

\* C21: generateTradingDecision has no effect on its arguments: after the
\* call every analysis of the mapping, its candlestickPatterns list included,
\* is the same as before the call.
C21_ArgumentsUntouched ==
  [][call.fn = "generateTradingDecision" => call'.analyses = call.analyses]_vars

(***************************************************************************)
(* Properties of the loop of backtestStrategy                              *)
(***************************************************************************)
\* the loop over the candles was left and the final close is next
LoopLeft == pc = "close"

\* C22: the exit and entry rules are evaluated at every candle index i with
\* 50 <= i <= N - 1, over the window candles[i-50..i]; in particular the last
\* candle of the series is evaluated by the rules before the final close. So
\* the loop is left with i = N and with the close of the last candle as the
\* price the rules saw last.
C22_LastCandleEvaluated ==
  (LoopLeft /\ Len(candles) > Lookback) =>
    /\ i = Len(candles)
    /\ currentPrice = candles[Len(candles)].close

\* the first half of a pass of the loop: the exit rule at the candle of index i
ExitStep == pc = "loop" /\ pc' = "entry"

\* a trade was appended to the ledger
Closed == Len(trades') = Len(trades) + 1

\* RSI(14) at the last candle of the window candles[i-50..i]
WindowRsi ==
  calculateRSI(SubSeq(candles, i - Lookback + 1, i + 1), RsiPeriod)[Lookback + 1]

\* C23: a LONG open at an evaluated candle is closed at that candle's close
\* if and only if RSI > 70 or EMA8 < EMA21, a SHORT if and only if RSI < 30
\* or EMA8 > EMA21; the profit of the close is size * (exit - entry) / entry *
\* leverage for LONG and size * (entry - exit) / entry * leverage for SHORT
\* and is added to capital; inside the loop a position is closed for no
\* other reason.
C23_ExitRule ==
  [][/\ (ExitStep /\ inPosition) =>
          /\ Closed <=>
               IF positionType = "LONG"
                 THEN NumGt(WindowRsi, Num(Overbought)) \/ EmaLt(currentEma8', currentEma21')
                 ELSE NumLt(WindowRsi, Num(Oversold)) \/ EmaGt(currentEma8', currentEma21')
          /\ Closed =>
               /\ trades'[Len(trades')].exitPrice = candles[i + 1].close
               /\ NumEq(trades'[Len(trades')].profit,
                        PositionProfit(positionType, positionSize, entryPrice,
                                       candles[i + 1].close, leverage))
               /\ NumEq(capital', NumAdd(capital, trades'[Len(trades')].profit))
          /\ ~Closed => trades' = trades /\ capital' = capital
     /\ (ExitStep /\ ~inPosition) => trades' = trades
     /\ pc = "entry" => trades' = trades]_vars

\* C24: when no position is open at an evaluated candle, a LONG is opened if
\* and only if RSI < 30 and EMA8 > EMA21, a SHORT if and only if RSI > 70 and
\* EMA8 < EMA21, and otherwise none; the position is opened at that candle's
\* close with size = capital * (riskPerTrade / 100), capital being the
\* running capital at the moment of entry.
C24_EntryRule ==
  [][pc = "entry" =>
       IF inPosition THEN UNCHANGED position
       ELSE /\ (inPosition' /\ positionType' = "LONG") <=>
                 (NumLt(WindowRsi, Num(Oversold)) /\ EmaGt(currentEma8, currentEma21))
            /\ (inPosition' /\ positionType' = "SHORT") <=>
                 (NumGt(WindowRsi, Num(Overbought)) /\ EmaLt(currentEma8, currentEma21))
            /\ inPosition' =>
                 /\ entryPrice' = candles[i + 1].close
                 /\ entryTime' = candles[i + 1].time
                 /\ NumEq(positionSize',
                          NumDiv(NumMul(capital, Num(riskPerTrade)), Num(100)))
                 /\ capital' = capital
            /\ ~inPosition' => UNCHANGED position]_vars

\* a second position, opened after the first trade had changed the capital,
\* sized from the capital of that moment
C24_Witness ==
  /\ pc = "loop"
  /\ inPosition
  /\ Len(trades) = 1
  /\ ~NumEq(capital, Num(initialCapital))
  /\ entryTime = candles[i].time
  /\ NumEq(positionSize, NumDiv(NumMul(capital, Num(riskPerTrade)), Num(100)))

(***************************************************************************)
(* Further properties of generateTradingDecision                           *)
(***************************************************************************)
\* |confidence - 0.5| of the k-th timeframe of the call
Deviation(k) == NumAbs(NumSub(call.analyses[k].confidence, Ratio(1, 2)))

\* C25: for every non-empty mapping generateTradingDecision returns a
\* decision without raising, and the dominant timeframe of the decision is a
\* key of the mapping whose |confidence - 0.5| is the largest, the first such
\* key on a tie; mappings in which every confidence is exactly 0.5 included.
C25_AlwaysDecides ==
  (call.fn = "generateTradingDecision" /\ call.returned /\ Len(call.analyses) >= 1) =>
    /\ ~output.threw
    /\ \E k \in 1..Len(call.analyses) :
         /\ output.timeframe = call.analyses[k].timeframe
         /\ \A j \in 1..Len(call.analyses) : NumLe(Deviation(j), Deviation(k))
         /\ \A j \in 1..(k - 1) : NumLt(Deviation(j), Deviation(k))

(***************************************************************************)
(* Further properties of calculateDCALevels                                *)
(***************************************************************************)
\* the supplied levels on the adverse side of the entry price, 1% to 30% away
UsableLevels ==
  { call.supportResistance[k] : k \in 1..Len(call.supportResistance) } \cap
  { level \in 0..(2 * call.entryPrice) :
      /\ OnAdverseSide(level, call.entryPrice, call.positionType)
      /\ InReasonableRange(level, call.entryPrice) }

\* the supplied levels that were substituted into the ladder
SubstitutedLevels ==
  { level \in UsableLevels :
      \E k \in 1..Len(output) :
        output[k].derivation = "supportResistance" /\ NumEq(output[k].price, Num(level)) }

\* C26: the support/resistance levels substituted into the ladder are the
\* nearest ones: when more of them lie on the adverse side than levels are
\* requested, those closest to the entry price are chosen (for LONG the
\* highest supports below entry, for SHORT the lowest resistances above),
\* and each substituted level is between 1% and 30% away from the entry.
C26_NearestLevelsSubstituted ==
  Substituted =>
    /\ \A k \in 1..Len(output) :
         output[k].derivation = "supportResistance" =>
           \E level \in UsableLevels : NumEq(output[k].price, Num(level))
    /\ \A chosen \in SubstitutedLevels, left \in UsableLevels \ SubstitutedLevels :
         Abs(chosen - call.entryPrice) < Abs(left - call.entryPrice)


(***************************************************************************)
(* analyzeCandlestickPatterns called on its own: a run of like candles     *)
(* that sets the prevailing trend, followed by three candles that show a   *)
(* pattern.                                                                *)
(***************************************************************************)
LeadLen == 7

\* the closes of the candles of the lead
LeadCloses == {85, 95, 100, 105, 125}

\* the three last candles, the last one on a volume of its own
WithLastVolume(cs, volume) == [cs EXCEPT ![Len(cs)].volume = volume]

\* a falling candle swallowed by a rising one: BULLISH_ENGULFING
SwallowedCandles ==
  <<Candle(110, 115, 95, 100, 100), Candle(110, 111, 99, 100, 100), Candle(98, 113, 97, 112, 100)>>

PatternCandles ==
  { lead \o WithLastVolume(ending, volume) :
      lead \in {<<>>} \cup { [k \in 1..LeadLen |-> Candle(close - 2, close + 1, close - 3, close, 100)] :
                             close \in LeadCloses },
      ending \in CandleDatas \cup {SwallowedCandles},
      volume \in {100, 200} }

PatternInit ==
  /\ call \in { [fn |-> "analyzeCandlestickPatterns", candles |-> cs, returned |-> FALSE] :
                cs \in PatternCandles }
  /\ output = NoResult
  /\ candles = <<>>
  /\ initialCapital = 1000
  /\ leverage = 2
  /\ riskPerTrade = 50
  /\ rounding = 0
  /\ pc = "idle"
  /\ capital = Num(initialCapital)
  /\ highWaterMark = Num(initialCapital)
  /\ maxDrawdown = Num(0)
  /\ trades = <<>>
  /\ inPosition = FALSE
  /\ positionType = "LONG"
  /\ entryPrice = 0
  /\ entryTime = 0
  /\ positionSize = Num(0)
  /\ i = Lookback
  /\ currentRsi = Num(50)
  /\ currentEma8 = Undefined
  /\ currentEma21 = Undefined
  /\ currentPrice = 0
  /\ result = NoResult
  /\ entries = 0

CallPatterns ==
  /\ call.fn = "analyzeCandlestickPatterns"
  /\ ~call.returned
  /\ output' = analyzeCandlestickPatterns(call.candles)
  /\ call' = [call EXCEPT !.returned = TRUE]
  /\ UNCHANGED <<args, pc, account, position, i, indicators, result, entries, rounding>>

PatternNext == CallPatterns

PatternSpec == PatternInit /\ [][PatternNext]_vars

(***************************************************************************)
(* Properties of analyzeCandlestickPatterns, checked under PatternSpec.    *)
(***************************************************************************)
PatternsReturned == call.fn = "analyzeCandlestickPatterns" /\ call.returned

\* the bias of a pattern is the opposite of the prevailing trend
Opposes(bias, prevailing) ==
  \/ bias = "BULLISH" /\ prevailing = "BEARISH"
  \/ bias = "BEARISH" /\ prevailing = "BULLISH"

\* the volume of the candle at index is more than 1.5 times that of the one before
VolumeSurge(cs, index) == 2 * cs[index].volume > 3 * cs[index - 1].volume

\* the score the rule gives a pattern found at index
RuleSignificance(pattern, cs, index) ==
  LET reversal == IF Opposes(getPatternTrend(pattern), determineCurrentTrend(cs)) THEN 10 ELSE 0
      volume   == IF VolumeSurge(cs, index) THEN 10 ELSE 0
  IN  Min(100, Max(0, baseSignificance(pattern) + reversal + volume))

\* C27: every pattern analyzeCandlestickPatterns returns scores its base
\* weight, plus 10 exactly when its bias is the opposite of the prevailing
\* trend (nothing when the prevailing trend is neutral or equal to the bias,
\* or the pattern is neutral), plus 10 exactly when the candle's volume is
\* more than 1.5 times the previous candle's, clamped to 0..100; and the
\* results are in descending order of significance.
C27_SignificanceRule ==
  PatternsReturned =>
    /\ \A k \in 1..Len(output) :
         output[k].significance = RuleSignificance(output[k].pattern, call.candles, output[k].index)
    /\ \A k \in 1..(Len(output) - 1) : output[k].significance >= output[k + 1].significance


(***************************************************************************)
(* Further properties of backtestStrategy, checked under Spec.             *)
(***************************************************************************)
\* the sum of the profits of the first k trades of a ledger
RECURSIVE LedgerProfit(_, _)
LedgerProfit(ts, k) ==
  IF k = 0 THEN Num(0) ELSE NumAdd(LedgerProfit(ts, k - 1), ts[k].profit)

\* C28: at every point of a run the running capital is initialCapital plus
\* the profits of the trades recorded so far; the value returned has
\* finalCapital = finalBalance = initialCapital + the sum of trade.profit and
\* netProfit = the sum of trade.profit; and the capital changes only in a
\* step that closes the open position and records its trade.
C28_CapitalConserved ==
  /\ [](NumEq(capital, NumAdd(Num(initialCapital), LedgerProfit(trades, Len(trades)))))
  /\ [](Returned =>
          LET sum == LedgerProfit(result.trades, Len(result.trades))
          IN  /\ NumEq(result.finalCapital, NumAdd(Num(initialCapital), sum))
              /\ NumEq(result.finalBalance, result.finalCapital)
              /\ NumEq(result.netProfit, sum))
  /\ [][~NumEq(capital', capital) =>
          /\ inPosition
          /\ Len(trades') = Len(trades) + 1
          /\ NumEq(capital', NumAdd(capital, trades'[Len(trades')].profit))]_vars

\* a run that returned a ledger of two trades or more, with a net profit or loss
C28_Witness ==
  /\ Returned
  /\ Len(result.trades) >= 2
  /\ ~NumIsZero(result.netProfit)
  /\ ~NumIsZero(result.trades[1].profit)


\* the candle times of the run grow strictly
StrictlyIncreasingTimes ==
  \A k \in 1..(Len(candles) - 1) : candles[k].time < candles[k + 1].time

\* a ledger in the order of time, no trade overlapping the one before it
Chronological(ts) ==
  /\ \A k \in 1..Len(ts) : ts[k].entryTime < ts[k].exitTime
  /\ \A k \in 1..(Len(ts) - 1) :
       /\ ts[k].exitTime <= ts[k + 1].exitTime
       /\ ts[k + 1].entryTime >= ts[k].exitTime

\* C29: over candles of strictly increasing times every trade of the ledger
\* has entryTime < exitTime, the trades are in the order of their exit
\* times, and each trade's entryTime is >= the exitTime of the trade before
\* it; the same holds of the ledger returned.
C29_LedgerChronological ==
  StrictlyIncreasingTimes =>
    /\ Chronological(trades)
    /\ Returned => Chronological(result.trades)

\* a returned ledger whose second trade was opened after a pause and closed
\* at the last candle of the series
C29_Witness ==
  /\ Returned
  /\ StrictlyIncreasingTimes
  /\ Len(result.trades) >= 2
  /\ result.trades[2].entryTime > result.trades[1].exitTime
  /\ result.trades[Len(result.trades)].exitTime = candles[Len(candles)].time

\* the position that is open was opened on the candle that closed the last trade
ReversedOnSameCandle ==
  /\ inPosition
  /\ Len(trades) >= 1
  /\ entryTime = trades[Len(trades)].exitTime


\* the exit rule has just closed a position on the candle of this pass
ClosedOnThisCandle ==
  /\ pc = "entry"
  /\ ~inPosition
  /\ Len(trades) >= 1
  /\ trades[Len(trades)].exitTime = candles[i + 1].time

\* C30: when the exit rule has closed a position at candle i, the entry rule
\* is evaluated on the same candle: a position is opened exactly when the
\* entry conditions hold on that candle, at the time and at the price of the
\* exit, and always on the side opposite to the position just closed.
C30_SameCandleReversal ==
  [][ClosedOnThisCandle =>
        LET closed == trades[Len(trades)]
        IN  /\ inPosition' <=>
                 \/ NumLt(currentRsi, Num(Oversold)) /\ EmaGt(currentEma8, currentEma21)
                 \/ NumGt(currentRsi, Num(Overbought)) /\ EmaLt(currentEma8, currentEma21)
            /\ inPosition' =>
                 /\ entryTime' = closed.exitTime
                 /\ entryPrice' = closed.exitPrice
                 /\ positionType' # closed.type
                 /\ positionType' \in {"LONG", "SHORT"}]_vars

\* a position opened on the candle, and at the price, at which the trade
\* before it was closed
C30_Witness ==
  /\ pc = "loop"
  /\ ReversedOnSameCandle
  /\ entryPrice = trades[Len(trades)].exitPrice
  /\ positionType # trades[Len(trades)].type

====
